---- MODULE Spec2Model ----
(***************************************************************************)
(* Model of the real-time scoring engine FraudDetectionService             *)
(* (backend/app/fraud_detection.py) and of its threshold table             *)
(* (backend/config/settings.py).                                           *)
(*                                                                         *)
(* Units.  Probabilities, adjustments and confidences are fixed-point      *)
(* numbers in units of 1/100000 (ONE = 1.0), one digit finer than the four *)
(* decimals the engine reports.  Money is in thousandths of a currency     *)
(* unit, one digit finer than the 0.01 tolerance of the identical-amount   *)
(* rule.  Time is in whole seconds of the wall clock.                      *)
(***************************************************************************)
EXTENDS Integers, Sequences, FiniteSets, TLC

(***************************************************************************)
(* Bounds of the model                                                     *)
(***************************************************************************)
MaxCalls == 3          \* scoring calls per behaviour of Spec
MaxThreads == 2        \* scoring calls in flight at once (the pool has 4 workers)

(***************************************************************************)
(* Program constants                                                       *)
(***************************************************************************)
ONE == 100000                  \* 1.0 in probability units
CACHE_TTL == 300               \* freshness window of the cache, seconds
CACHE_MAX == 1000              \* entries kept by _cache_prediction
RECENT_MAX == 1000             \* entries kept in recent_claims
DAY == 86400                   \* seconds in a day (timedelta normalisation)
ADJ_CAP == 40000               \* cap of the pattern adjustment, 0.4
FRAUD_CUTOFF == 50000          \* is_fraud decision boundary, 0.5

pattern_thresholds_doctor_above_11 ==
    [same_doctor_multiple_claims |-> 11,
     same_patient_multiple_claims |-> 5,
     identical_claim_amounts |-> 3,
     rapid_fire_claims |-> 20]

\* self.pattern_thresholds, set by _initialize_pattern_detection
pattern_thresholds ==
    [same_doctor_multiple_claims |-> 10,
     same_patient_multiple_claims |-> 5,
     identical_claim_amounts |-> 3,
     rapid_fire_claims |-> 20]

\* RISK_THRESHOLDS with no environment override
DefaultThresholds ==
    [CRITICAL |-> 80000, HIGH |-> 60000, MEDIUM |-> 40000, LOW |-> 20000]

\* the order in which _determine_risk_level tries the tiers
LevelOrder == <<"CRITICAL", "HIGH", "MEDIUM", "LOW">>

\* MINIMAL < LOW < MEDIUM < HIGH < CRITICAL
TierRank(level) ==
    CASE level = "MINIMAL" -> 0
      [] level = "LOW" -> 1
      [] level = "MEDIUM" -> 2
      [] level = "HIGH" -> 3
      [] level = "CRITICAL" -> 4
      [] OTHER -> -1

(***************************************************************************)
(* Claim records (claim_data).  A key that is not in the dict is Absent, a *)
(* key whose value is None is Null.                                        *)
(***************************************************************************)
Absent == "<absent>"
Null == "<null>"
BadTimestamp == "not-a-date"   \* a string pd.to_datetime cannot parse
EmptyTimestamp == "<empty>"    \* the empty string, which parses to NaT
NaN == -999999                 \* a missing cell of the feature frame

\* dict.get(key, default)
Get(v, default) == IF v = Absent THEN default ELSE v

\* dict.get(key): an absent key reads as None
GetOrNone(v) == IF v = Absent THEN Null ELSE v

\* The claim the API layer builds for a routine consultation.
BaseClaim ==
    [claim_id |-> "CLM",
     patient_id |-> "P1",
     doctor_id |-> "D1",
     patient_age |-> 30,
     claim_amount |-> 500000,       \* 500.00
     amount_kind |-> "float",       \* "int", "float" or Absent
     diagnosis_code |-> "Z00.0",
     facility_location |-> "WINDHOEK",
     patient_location |-> "WINDHOEK",
     ts_kind |-> Absent,            \* Absent, Null, EmptyTimestamp,
                                    \* BadTimestamp or "iso"
     ts_value |-> 0,                \* the instant an "iso" timestamp names
     patient_gender |-> "M",
     medical_scheme |-> "PSEMAS",
     biometric_verified |-> TRUE,
     patient_present |-> TRUE,
     patient_deceased |-> FALSE,
     weekend_claim |-> FALSE,
     after_hours_claim |-> FALSE,
     emergency_case |-> FALSE,
     travel_distance_suspicious |-> FALSE]

(***************************************************************************)
(* Small arithmetic                                                        *)
(***************************************************************************)
Min(a, b) == IF a <= b THEN a ELSE b
Max(a, b) == IF a >= b THEN a ELSE b
Abs(a) == IF a >= 0 THEN a ELSE 0 - a

\* round(x, 4): the nearest multiple of 0.0001
Round4(x) == ((x + 5) \div 10) * 10

RECURSIVE ILog2(_)
ILog2(n) == IF n <= 1 THEN 0 ELSE 1 + ILog2(n \div 2)

\* np.log1p(amount), to the integer part of the base-2 logarithm
Log1p(amount) == ILog2(1 + amount \div 1000)

\* s[-n:]
LastN(s, n) ==
    IF Len(s) <= n THEN s ELSE SubSeq(s, Len(s) - n + 1, Len(s))

Range(s) == {s[i] : i \in DOMAIN s}

(***************************************************************************)
(* _hash_claim_features: md5 of json.dumps(key_features, sort_keys=True).  *)
(* The digest is modelled by the serialized text it is computed from (md5  *)
(* taken as collision free): the five values in key order, each as JSON    *)
(* writes it.                                                              *)
(***************************************************************************)
JsonString(v) == IF GetOrNone(v) = Null THEN <<"null">> ELSE <<"string", v>>

\* json.dumps writes an int as 500 and a float as 500.0
JsonNumber(amount, kind) ==
    IF kind = Absent THEN <<"null">> ELSE <<kind, amount>>

_hash_claim_features(c) ==
    <<JsonNumber(c.claim_amount, c.amount_kind),
      JsonString(c.diagnosis_code),
      JsonString(c.doctor_id),
      JsonString(c.facility_location),
      JsonString(c.patient_id)>>

(***************************************************************************)
(* Helper methods of the service                                           *)
(***************************************************************************)
_is_holiday(t) == FALSE

_categorize_claim_amount(amount) ==
    IF amount < 100000 THEN "low"
    ELSE IF amount < 1000000 THEN "medium"
    ELSE IF amount < 10000000 THEN "high"
    ELSE "very_high"

_get_age_group(age) ==
    IF age < 18 THEN "child"
    ELSE IF age < 35 THEN "young_adult"
    ELSE IF age < 50 THEN "adult"
    ELSE IF age < 65 THEN "middle_aged"
    ELSE "senior"

\* the doctor ids of the model that contain DR_X, TEMP_ or LOCUM_
_is_high_risk_doctor(doctor_id) == doctor_id \in {"DR_X1", "TEMP_7", "LOCUM_2"}

_get_provider_claim_count(counts, doctor_id) ==
    IF doctor_id \in DOMAIN counts THEN counts[doctor_id] ELSE 0

(***************************************************************************)
(* State                                                                   *)
(***************************************************************************)
VARIABLES
    now,                  \* the wall clock, datetime.now() / time.time()
    feature_names,        \* self.feature_names, loaded from feature_info.json
    risk_thresholds,      \* self.risk_thresholds
    hash_seed,            \* the string-hash seed of this process
    prediction_cache,     \* self.prediction_cache, in dict (insertion) order
    doctor_claim_counts,  \* self.doctor_claim_counts
    patient_claim_counts, \* self.patient_claim_counts
    recent_claims,        \* self.recent_claims
    model_stats,          \* self.model_stats
    claim,                \* the claim_data of the last call
    last_outcome,         \* what the classifier was set to do in the last call
    result,               \* what the last call returned
    inferences,           \* number of predict_proba invocations so far
    calls,                \* number of calls made so far
    threads,              \* the pool's workers: where each is in predict_fraud
    lock                  \* self.lock: the worker holding it, 0 when free

vars == <<now, feature_names, risk_thresholds, hash_seed, prediction_cache,
          doctor_claim_counts, patient_claim_counts, recent_claims,
          model_stats, claim, last_outcome, result, inferences, calls,
          threads, lock>>

(***************************************************************************)
(* _prepare_features                                                       *)
(***************************************************************************)
\* the keys of the features dict, in the order they are inserted
DerivedColumns ==
    <<"hour", "day_of_week", "day_of_month", "month", "quarter",
      "is_weekend", "is_after_hours", "is_holiday",
      "patient_age", "claim_amount",
      "biometric_verified", "patient_present", "patient_deceased",
      "weekend_claim", "after_hours_claim", "emergency_case",
      "travel_distance_suspicious",
      "expected_cost_min", "expected_cost_max", "cost_deviation",
      "cost_ratio", "cost_outlier_flag", "log_claim_amount",
      "claim_amount_category",
      "is_high_risk_doctor", "provider_claims_today", "location_mismatch",
      "age_group",
      "patient_gender_encoded", "medical_scheme_encoded",
      "diagnosis_code_encoded", "facility_location_encoded",
      "age_group_encoded">>

\* the encoders found in ENCODER_DIR: one LabelEncoder.classes_ per name;
\* the other categorical fields take the hash fallback
encoders ==
    [patient_gender |-> <<"F", "M">>,
     medical_scheme |-> <<"GIPF", "PSEMAS">>]

IndexOf(s, v) == CHOOSE i \in DOMAIN s : s[i] = v

\* hash(str(value)): a number that depends on the text and on the seed the
\* interpreter drew at start-up
StrCode(v) ==
    CASE v = "Z00.0" -> 17
      [] v = "J45.9" -> 29
      [] v = "WINDHOEK" -> 41
      [] v = "OSHAKATI" -> 53
      [] v = "UNKNOWN" -> 67
      [] v = "child" -> 71
      [] v = "young_adult" -> 83
      [] v = "adult" -> 97
      [] v = "middle_aged" -> 101
      [] v = "senior" -> 113
      [] OTHER -> 127

PyHash(seed, v) == ((StrCode(v) * 7919) + (seed * 104729)) % 1000003

EncodeCategorical(name, value, seed) ==
    IF name \in DOMAIN encoders
    THEN IF value \notin Range(encoders[name])
         THEN -1
         ELSE IndexOf(encoders[name], value) - 1
    ELSE PyHash(seed, value) % 1000

BoolInt(b) == IF b THEN 1 ELSE 0

\* pd.to_datetime(claim_data.get("timestamp", datetime.now().isoformat())):
\* the instant, or NaN for NaT (an empty timestamp)
ParseTimestamp(c, t) ==
    IF c.ts_kind = Absent THEN t
    ELSE IF c.ts_kind = EmptyTimestamp THEN NaN
    ELSE c.ts_value

\* The model's calendar starts on a Monday, the first of January, and
\* has months of 31 days.
Hour(t) == IF t = NaN THEN NaN ELSE (t \div 3600) % 24
DayOfWeek(t) == IF t = NaN THEN NaN ELSE (t \div DAY) % 7
DayOfMonth(t) == IF t = NaN THEN NaN ELSE ((t \div DAY) % 31) + 1
Month(t) == IF t = NaN THEN NaN ELSE (((t \div DAY) \div 31) % 12) + 1
Quarter(t) == IF t = NaN THEN NaN ELSE ((Month(t) - 1) \div 3) + 1

PrepareRaises_ids_required(c) ==
    \/ c.ts_kind \in {BadTimestamp, Null}
    \/ c.doctor_id = Null
    \/ Absent \in {c.claim_id, c.patient_id, c.doctor_id}

\* the statements of _prepare_features that raise
PrepareRaises(c) ==
    \/ c.ts_kind = BadTimestamp      \* pd.to_datetime cannot parse it
    \/ c.ts_kind = Null              \* pd.to_datetime(None) is None: no .hour
    \/ c.doctor_id = Null            \* "DR_X" in None

\* the features dict
Features(c, t, counts, seed) ==
    LET dt == ParseTimestamp(c, t)
        amount == Max(0, IF c.amount_kind = Absent THEN 0 ELSE c.claim_amount)
        age == Max(0, Min(120, c.patient_age))
        doctor_id == Get(c.doctor_id, "")
        age_group == _get_age_group(age)
    IN  [hour |-> Hour(dt),
         day_of_week |-> DayOfWeek(dt),
         day_of_month |-> DayOfMonth(dt),
         month |-> Month(dt),
         quarter |-> Quarter(dt),
         is_weekend |-> BoolInt(dt # NaN /\ DayOfWeek(dt) >= 5),
         is_after_hours |->
             BoolInt(dt # NaN /\ (Hour(dt) < 7 \/ Hour(dt) > 18)),
         is_holiday |-> BoolInt(_is_holiday(dt)),
         patient_age |-> age,
         claim_amount |-> amount,
         biometric_verified |-> BoolInt(c.biometric_verified),
         patient_present |-> BoolInt(c.patient_present),
         patient_deceased |-> BoolInt(c.patient_deceased),
         weekend_claim |-> BoolInt(c.weekend_claim),
         after_hours_claim |-> BoolInt(c.after_hours_claim),
         emergency_case |-> BoolInt(c.emergency_case),
         travel_distance_suspicious |-> BoolInt(c.travel_distance_suspicious),
         expected_cost_min |-> (amount * 7) \div 10,
         expected_cost_max |-> (amount * 13) \div 10,
         cost_deviation |-> 0,
         cost_ratio |-> 1,
         cost_outlier_flag |-> BoolInt(amount > 10000000),
         log_claim_amount |-> Log1p(amount),
         claim_amount_category |-> _categorize_claim_amount(amount),
         is_high_risk_doctor |-> BoolInt(_is_high_risk_doctor(doctor_id)),
         provider_claims_today |-> _get_provider_claim_count(counts, doctor_id),
         location_mismatch |->
             BoolInt(Get(c.patient_location, "") # Get(c.facility_location, "")),
         age_group |-> age_group,
         patient_gender_encoded |->
             EncodeCategorical("patient_gender", Get(c.patient_gender, "M"), seed),
         medical_scheme_encoded |->
             EncodeCategorical("medical_scheme", Get(c.medical_scheme, "PSEMAS"), seed),
         diagnosis_code_encoded |->
             EncodeCategorical("diagnosis_code", Get(c.diagnosis_code, "Z00.0"), seed),
         facility_location_encoded |->
             EncodeCategorical("facility_location",
                               Get(c.facility_location, "UNKNOWN"), seed),
         age_group_encoded |-> EncodeCategorical("age_group", age_group, seed)]

_prepare_features_unaligned(c, t, counts, seed, names) ==
    LET f == Features(c, t, counts, seed)
        columns == DerivedColumns
    IN  [columns |-> columns,
         row |-> [n \in Range(columns) |->
                     IF n \in DOMAIN f THEN f[n] ELSE 0]]

\* The one-row frame: its columns in order and the row.  With a configured
\* feature list the frame has exactly those columns, a name that was not
\* derived holding 0.
_prepare_features(c, t, counts, seed, names) ==
    LET f == Features(c, t, counts, seed)
        columns == IF names # <<>> THEN names ELSE DerivedColumns
    IN  [columns |-> columns,
         row |-> [n \in Range(columns) |->
                     IF n \in DOMAIN f THEN f[n] ELSE 0]]

\* row.get(name, default)
RowGet(df, name, default) ==
    IF name \in DOMAIN df.row THEN df.row[name] ELSE default

\* the columns that hold text; a text cell is never missing
TextColumns == {"claim_amount_category", "age_group"}

\* df.notna().sum().sum()
NotNaCount(df) ==
    Cardinality({i \in DOMAIN df.columns :
                    \/ df.columns[i] \in TextColumns
                    \/ df.row[df.columns[i]] # NaN})

(***************************************************************************)
(* _analyze_patterns                                                       *)
(***************************************************************************)
\* counts.get(key, 0)
CountOf(counts, key) == IF key \in DOMAIN counts THEN counts[key] ELSE 0

IdenticalAmountCount_whole_history(recent, amount) ==
    LET amountOf(r) == IF r.amount_kind = Absent THEN 0 ELSE r.claim_amount
    IN  Cardinality({i \in DOMAIN recent : Abs(amountOf(recent[i]) - amount) < 10})

\* entries of recent_claims[-50:] whose amount is within 0.01 of the claim's
IdenticalAmountCount(recent, amount) ==
    LET window == LastN(recent, 50)
        amountOf(r) == IF r.amount_kind = Absent THEN 0 ELSE r.claim_amount
    IN  Cardinality({i \in DOMAIN window : Abs(amountOf(window[i]) - amount) < 10})

\* datetime.fromisoformat(claim.get("timestamp", current_time.isoformat()))
\* raises on a None, empty or non-ISO timestamp of a recorded claim
BurstRaises(recent) ==
    \E i \in DOMAIN LastN(recent, 100) :
        LastN(recent, 100)[i].ts_kind \in {Null, EmptyTimestamp, BadTimestamp}

\* entries of recent_claims[-100:] less than 300 s older than current_time
RecentClaimsCount(recent, t) ==
    LET window == LastN(recent, 100)
        stamp(r) == IF r.ts_kind = Absent THEN t ELSE r.ts_value
    IN  Cardinality({i \in DOMAIN window : t - stamp(window[i]) < 300})

\* the rules in the order of the code; an exception in the burst rule leaves
\* what the earlier rules added
PatternRules(c, dcounts, pcounts, recent, t) ==
    LET doctor_id == Get(c.doctor_id, "")
        patient_id == Get(c.patient_id, "")
        claim_amount == IF c.amount_kind = Absent THEN 0 ELSE c.claim_amount
        doctorRule == CountOf(dcounts, doctor_id)
                          > pattern_thresholds.same_doctor_multiple_claims
        patientRule == CountOf(pcounts, patient_id)
                          > pattern_thresholds.same_patient_multiple_claims
        amountRule == IdenticalAmountCount(recent, claim_amount)
                          >= pattern_thresholds.identical_claim_amounts
        burstRule == /\ ~BurstRaises(recent)
                     /\ RecentClaimsCount(recent, t)
                          > pattern_thresholds.rapid_fire_claims
    IN  [adjustment |->
             (IF doctorRule THEN 20000 ELSE 0) + (IF patientRule THEN 15000 ELSE 0)
               + (IF amountRule THEN 10000 ELSE 0) + (IF burstRule THEN 25000 ELSE 0),
         flags |->
             (IF doctorRule THEN <<"high_frequency_doctor">> ELSE <<>>)
               \o (IF patientRule THEN <<"high_frequency_patient">> ELSE <<>>)
               \o (IF amountRule THEN <<"identical_amounts_pattern">> ELSE <<>>)
               \o (IF burstRule THEN <<"rapid_fire_claims">> ELSE <<>>)]

_analyze_patterns_uncapped(c, dcounts, pcounts, recent, t) ==
    PatternRules(c, dcounts, pcounts, recent, t)

_analyze_patterns(c, dcounts, pcounts, recent, t) ==
    LET r == PatternRules(c, dcounts, pcounts, recent, t)
    IN  [adjustment |-> Min(ADJ_CAP, r.adjustment), flags |-> r.flags]

(***************************************************************************)
(* _determine_risk_level                                                   *)
(***************************************************************************)
RECURSIVE FirstLevel(_, _, _)
FirstLevel(order, probability, thresholds) ==
    IF order = <<>> THEN "MINIMAL"
    ELSE IF probability >= thresholds[Head(order)] THEN Head(order)
    ELSE FirstLevel(Tail(order), probability, thresholds)

RECURSIVE FirstLevelAbove(_, _, _)
FirstLevelAbove(order, probability, thresholds) ==
    IF order = <<>> THEN "MINIMAL"
    ELSE IF probability > thresholds[Head(order)] THEN Head(order)
    ELSE FirstLevelAbove(Tail(order), probability, thresholds)

_determine_risk_level_strict(probability, thresholds) ==
    FirstLevelAbove(LevelOrder, probability, thresholds)

_determine_risk_level_ascending(probability, thresholds) ==
    FirstLevel(<<"LOW", "MEDIUM", "HIGH", "CRITICAL">>, probability, thresholds)

_determine_risk_level(probability, thresholds) ==
    FirstLevel(LevelOrder, probability, thresholds)

(***************************************************************************)
(* _calculate_confidence_score                                             *)
(***************************************************************************)
_calculate_confidence_score(prob, df, pattern_adj) ==
    LET base_confidence == IF prob > FRAUD_CUTOFF THEN prob ELSE ONE - prob
        notna == NotNaCount(df)
        cells == Len(df.columns)
        pattern_confidence_boost == Min(20000, pattern_adj \div 2)
    IN  Min(ONE, (base_confidence * notna) \div cells + pattern_confidence_boost)

(***************************************************************************)
(* _generate_comprehensive_flags                                           *)
(***************************************************************************)
_generate_comprehensive_flags(df, prob) ==
    LET age == RowGet(df, "patient_age", 0)
        when(cond, flag) == IF cond THEN <<flag>> ELSE <<>>
    IN  (IF prob >= 90000 THEN <<"very_high_confidence_fraud">>
         ELSE IF prob >= 80000 THEN <<"high_confidence_fraud">>
         ELSE IF prob >= 60000 THEN <<"moderate_confidence_fraud">>
         ELSE <<>>)
        \o when(RowGet(df, "location_mismatch", 0) # 0, "location_mismatch")
        \o when(RowGet(df, "claim_amount", 0) > 10000000, "high_claim_amount")
        \o when(RowGet(df, "claim_amount", 0) > 50000000,
                "extremely_high_claim_amount")
        \o when(RowGet(df, "is_high_risk_doctor", 0) # 0, "high_risk_provider")
        \o when(RowGet(df, "emergency_case", 0) # 0
                  /\ RowGet(df, "is_after_hours", 0) # 0, "emergency_after_hours")
        \o when(RowGet(df, "patient_deceased", 0) # 0, "deceased_patient_claim")
        \o when(RowGet(df, "biometric_verified", 0) = 0,
                "no_biometric_verification")
        \o when(RowGet(df, "patient_present", 0) = 0, "patient_not_present")
        \o (IF age < 1 THEN <<"newborn_claim">>
            ELSE IF age > 100 THEN <<"centenarian_claim">>
            ELSE <<>>)

(***************************************************************************)
(* _update_statistics, _cache_prediction, _update_pattern_tracking         *)
(***************************************************************************)
_update_statistics_every_call_fraud(stats, res, processing_time) ==
    LET total_predictions == stats.predictions_made + 1
    IN  [predictions_made |-> total_predictions,
         fraud_detected |-> stats.fraud_detected + 1,
         avg_processing_time |->
             (stats.avg_processing_time * (total_predictions - 1) + processing_time)
                 \div total_predictions]

_update_statistics(stats, res, processing_time) ==
    LET total_predictions == stats.predictions_made + 1
    IN  [predictions_made |-> total_predictions,
         fraud_detected |->
             stats.fraud_detected + (IF res.is_fraud THEN 1 ELSE 0),
         avg_processing_time |->
             (stats.avg_processing_time * (total_predictions - 1) + processing_time)
                 \div total_predictions]

\* the position of a key in the cache, 0 when it is not a key
CacheIndex(cache, key) ==
    IF \E i \in DOMAIN cache : cache[i].features_hash = key
    THEN CHOOSE i \in DOMAIN cache : cache[i].features_hash = key
    ELSE 0

RemoveAt(s, i) == SubSeq(s, 1, i - 1) \o SubSeq(s, i + 1, Len(s))

\* min(keys, key=timestamp): the first key, in dict order, of least timestamp
OldestIndex(cache) ==
    CHOOSE i \in DOMAIN cache :
        /\ \A j \in DOMAIN cache : cache[i].timestamp <= cache[j].timestamp
        /\ \A j \in 1..(i - 1) : cache[j].timestamp > cache[i].timestamp

\* assignment to an existing key keeps the key's place in the dict
CachePut(cache, entry) ==
    LET i == CacheIndex(cache, entry.features_hash)
    IN  IF i = 0 THEN Append(cache, entry) ELSE [cache EXCEPT ![i] = entry]

CacheTrim_newest(cache, max) ==
    IF Len(cache) > max THEN SubSeq(cache, 1, Len(cache) - 1) ELSE cache

CacheTrim(cache, max) ==
    IF Len(cache) > max THEN RemoveAt(cache, OldestIndex(cache)) ELSE cache

_cache_prediction(cache, claim_id, res, features_hash, t) ==
    CacheTrim(CachePut(cache, [claim_id |-> claim_id,
                               prediction |-> res,
                               timestamp |-> t,
                               features_hash |-> features_hash]),
              CACHE_MAX)

\* "if doctor_id:" is false for a missing, None or empty id
Truthy(id) == id \notin {Absent, Null, ""}

Increment(counts, key) ==
    [k \in DOMAIN counts \cup {key} |-> CountOf(counts, k) + (IF k = key THEN 1 ELSE 0)]

_update_pattern_tracking_drops_newest(dcounts, pcounts, recent, c) ==
    LET appended == Append(recent, c)
    IN  [doctor_claim_counts |->
             IF Truthy(c.doctor_id) THEN Increment(dcounts, c.doctor_id) ELSE dcounts,
         patient_claim_counts |->
             IF Truthy(c.patient_id) THEN Increment(pcounts, c.patient_id) ELSE pcounts,
         recent_claims |->
             IF Len(appended) > RECENT_MAX THEN SubSeq(appended, 1, RECENT_MAX)
             ELSE appended]

\* the three stores after the update: counts, counts, recent list
_update_pattern_tracking(dcounts, pcounts, recent, c) ==
    LET appended == Append(recent, c)
    IN  [doctor_claim_counts |->
             IF Truthy(c.doctor_id) THEN Increment(dcounts, c.doctor_id) ELSE dcounts,
         patient_claim_counts |->
             IF Truthy(c.patient_id) THEN Increment(pcounts, c.patient_id) ELSE pcounts,
         recent_claims |->
             IF Len(appended) > RECENT_MAX THEN Tail(appended) ELSE appended]

(***************************************************************************)
(* predict_fraud                                                           *)
(***************************************************************************)
ClassifierRaises == -1   \* predict_proba (or the scaler) raised

ErrorResult_unflagged ==
    [error |-> "exception",
     is_fraud |-> FALSE,
     fraud_probability |-> 0,
     risk_level |-> "ERROR",
     confidence_score |-> 0,
     flags |-> <<>>,
     processing_time_ms |-> 0,
     from_cache |-> FALSE]

\* the dict the except branch returns
ErrorResult ==
    [error |-> "exception",
     is_fraud |-> FALSE,
     fraud_probability |-> 0,
     risk_level |-> "ERROR",
     confidence_score |-> 0,
     flags |-> <<"processing_error">>,
     processing_time_ms |-> 0,
     from_cache |-> FALSE]

\* (datetime.now() - cached.timestamp).seconds: the seconds field of the
\* normalised timedelta, which leaves out whole days
TimedeltaSeconds(delta) == delta % DAY

CacheFresh_reversed(t, entry) ==
    TimedeltaSeconds(t - entry.timestamp) > CACHE_TTL

CacheFresh(t, entry) == TimedeltaSeconds(t - entry.timestamp) < CACHE_TTL

\* The engine's stores as one record.
Engine ==
    [prediction_cache |-> prediction_cache,
     doctor_claim_counts |-> doctor_claim_counts,
     patient_claim_counts |-> patient_claim_counts,
     recent_claims |-> recent_claims,
     model_stats |-> model_stats]

FreshResult_base_decision(c, prob, pattern, df, processing_time, thresholds) ==
    LET adjusted_prob == Min(ONE, prob + pattern.adjustment)
    IN  [is_fraud |-> prob >= 30000,
         fraud_probability |-> Round4(adjusted_prob),
         base_probability |-> Round4(prob),
         pattern_adjustment |-> Round4(pattern.adjustment),
         risk_level |-> _determine_risk_level(adjusted_prob, thresholds),
         confidence_score |->
             Round4(_calculate_confidence_score(adjusted_prob, df, pattern.adjustment)),
         flags |-> _generate_comprehensive_flags(df, adjusted_prob) \o pattern.flags,
         processing_time_ms |-> processing_time,
         model_version |-> "unknown",
         feature_count |-> Len(df.columns),
         from_cache |-> FALSE]

\* The verdict of a fresh scoring: lines 209-247.
FreshResult(c, prob, pattern, df, processing_time, thresholds) ==
    LET adjusted_prob == Min(ONE, prob + pattern.adjustment)
    IN  [is_fraud |-> adjusted_prob >= FRAUD_CUTOFF,
         fraud_probability |-> Round4(adjusted_prob),
         base_probability |-> Round4(prob),
         pattern_adjustment |-> Round4(pattern.adjustment),
         risk_level |-> _determine_risk_level(adjusted_prob, thresholds),
         confidence_score |->
             Round4(_calculate_confidence_score(adjusted_prob, df, pattern.adjustment)),
         flags |-> _generate_comprehensive_flags(df, adjusted_prob) \o pattern.flags,
         processing_time_ms |-> processing_time,
         model_version |-> "unknown",
         feature_count |-> Len(df.columns),
         from_cache |-> FALSE]

AnalysisState_after_record(e, c) ==
    LET tracked == _update_pattern_tracking(e.doctor_claim_counts,
                       e.patient_claim_counts, e.recent_claims, c)
    IN  [e EXCEPT !.doctor_claim_counts = tracked.doctor_claim_counts,
                  !.patient_claim_counts = tracked.patient_claim_counts,
                  !.recent_claims = tracked.recent_claims]

\* The stores as _analyze_patterns finds them: it is called before
\* _update_pattern_tracking, which runs last.
AnalysisState(e, c) == e

\* One call of predict_fraud on engine state e at clock value t: what it
\* returns and the state it leaves.  outcome is what the classifier does if
\* it is invoked, processing_time the elapsed milliseconds.
predict_fraud(e, c, t, outcome, processing_time, seed, names, thresholds) ==
    LET claim_id == Get(c.claim_id, "UNKNOWN_" \o ToString(t))
        features_hash == _hash_claim_features(c)
        hit == CacheIndex(e.prediction_cache, features_hash)
    IN  IF hit # 0 /\ CacheFresh(t, e.prediction_cache[hit])
        THEN \* result["flags"] is the list object the stored dict holds
             LET stored == e.prediction_cache[hit].prediction
                 flags == Append(stored.flags, "duplicate_claim_detected")
             IN  [result |-> [stored EXCEPT !.flags = flags, !.from_cache = TRUE],
                  engine |-> [e EXCEPT !.prediction_cache[hit].prediction.flags = flags],
                  inferred |-> 0]
        ELSE IF PrepareRaises(c)
        THEN [result |-> ErrorResult, engine |-> e, inferred |-> 0]
        ELSE IF outcome = ClassifierRaises
        THEN [result |-> ErrorResult, engine |-> e, inferred |-> 1]
        ELSE LET df == _prepare_features(c, t, e.doctor_claim_counts, seed, names)
                 seen == AnalysisState(e, c)
                 pattern == _analyze_patterns(c, seen.doctor_claim_counts,
                                seen.patient_claim_counts, seen.recent_claims, t)
                 res == FreshResult(c, outcome, pattern, df, processing_time,
                                    thresholds)
                 tracked == _update_pattern_tracking(e.doctor_claim_counts,
                                e.patient_claim_counts, e.recent_claims, c)
             IN  [result |-> res,
                  engine |->
                      [prediction_cache |->
                           _cache_prediction(e.prediction_cache, claim_id, res,
                                             features_hash, t),
                       doctor_claim_counts |-> tracked.doctor_claim_counts,
                       patient_claim_counts |-> tracked.patient_claim_counts,
                       recent_claims |-> tracked.recent_claims,
                       model_stats |->
                           _update_statistics(e.model_stats, res, processing_time)],
                  inferred |-> 1]

(***************************************************************************)
(* Inputs of the model                                                     *)
(***************************************************************************)
\* a feature list as the training notebook writes it: some derived names,
\* none of the text columns, and one name the engine does not derive
ModelFeatures ==
    <<"patient_age", "claim_amount", "hour", "day_of_week", "is_weekend",
      "is_after_hours", "biometric_verified", "patient_present",
      "patient_deceased", "emergency_case", "location_mismatch",
      "is_high_risk_doctor", "log_claim_amount", "diagnosis_code_encoded",
      "provider_risk_score">>

FeatureNameLists == {<<>>, ModelFeatures}
HashSeeds == {0, 1}
Probs == {30000, 79996}             \* what predict_proba may return
ClassifierOutcomes == Probs \cup {ClassifierRaises}
ProcTimes == {12}                   \* elapsed milliseconds of a call
\* the clock readings at which calls are made: within the freshness window
\* of a call at 0, just past it, and a day and more later
Instants == {0, 200, 400, DAY + 100, DAY + 500}

\* a second claim: another patient, doctor, amount, diagnosis and facility
OtherClaim ==
    [BaseClaim EXCEPT !.claim_id = "CLM2", !.patient_id = "P2",
                      !.doctor_id = "DR_X1", !.claim_amount = 75000000,
                      !.amount_kind = "int", !.diagnosis_code = "J45.9",
                      !.facility_location = "OSHAKATI", !.patient_age = 101,
                      !.biometric_verified = FALSE]

Claims == {BaseClaim, OtherClaim}

NoResult == [risk_level |-> "NONE"]
NoCounts == [k \in {} |-> 0]

\* a worker of the pool that runs no call: its place in predict_fraud, the
\* claim_data of its call, what the classifier will answer, the value its
\* last read of shared state gave, the result dict it built, what it returned,
\* and whether the caller awaiting it has given up
IdleThread ==
    [pc |-> "idle", claim |-> BaseClaim, outcome |-> 0, local |-> 0,
     result |-> NoResult, returned |-> NoResult, cancelled |-> FALSE]

(***************************************************************************)
(* The engine after construction, and its operations                       *)
(***************************************************************************)
Init ==
    /\ now = 0
    /\ feature_names \in FeatureNameLists
    /\ risk_thresholds = DefaultThresholds
    /\ hash_seed \in HashSeeds
    /\ prediction_cache = <<>>
    /\ doctor_claim_counts = NoCounts
    /\ patient_claim_counts = NoCounts
    /\ recent_claims = <<>>
    /\ model_stats = [predictions_made |-> 0, fraud_detected |-> 0,
                      avg_processing_time |-> 0]
    /\ claim = BaseClaim
    /\ last_outcome = ClassifierRaises
    /\ result = NoResult
    /\ inferences = 0
    /\ calls = 0
    /\ threads = [i \in 1..MaxThreads |-> IdleThread]
    /\ lock = 0

\* time passes between two calls
Tick ==
    /\ \E t \in Instants : t > now /\ now' = t
    /\ UNCHANGED <<feature_names, risk_thresholds, hash_seed, prediction_cache,
                   doctor_claim_counts, patient_claim_counts, recent_claims,
                   model_stats, claim, last_outcome, result, inferences, calls,
                   threads, lock>>

\* a caller runs predict_fraud(c) to completion
Score(c, outcome, processing_time) ==
    LET r == predict_fraud(Engine, c, now, outcome, processing_time,
                           hash_seed, feature_names, risk_thresholds)
    IN  /\ claim' = c
        /\ last_outcome' = outcome
        /\ result' = r.result
        /\ prediction_cache' = r.engine.prediction_cache
        /\ doctor_claim_counts' = r.engine.doctor_claim_counts
        /\ patient_claim_counts' = r.engine.patient_claim_counts
        /\ recent_claims' = r.engine.recent_claims
        /\ model_stats' = r.engine.model_stats
        /\ inferences' = inferences + r.inferred
        /\ calls' = calls + 1
        /\ UNCHANGED <<now, feature_names, risk_thresholds, hash_seed,
                       threads, lock>>

PredictFraud ==
    /\ calls < MaxCalls
    /\ \E c \in Claims, outcome \in ClassifierOutcomes, pt \in ProcTimes :
           Score(c, outcome, pt)

Next == Tick \/ PredictFraud

Spec == Init /\ [][Next]_vars

(***************************************************************************)
(* Intake: claims that lack identifiers or carry an unusable timestamp,    *)
(* as a caller that bypasses the API layer's validation may pass them      *)
(***************************************************************************)
MaxIntakeCalls == 2

IntakeClaims ==
    {BaseClaim,
     [BaseClaim EXCEPT !.claim_id = Absent],
     [BaseClaim EXCEPT !.patient_id = Absent],
     [BaseClaim EXCEPT !.doctor_id = Absent],
     [BaseClaim EXCEPT !.doctor_id = Null],
     [BaseClaim EXCEPT !.ts_kind = BadTimestamp],
     [BaseClaim EXCEPT !.ts_kind = Null],
     [BaseClaim EXCEPT !.ts_kind = EmptyTimestamp]}

PredictIntake ==
    /\ calls < MaxIntakeCalls
    /\ \E c \in IntakeClaims, outcome \in ClassifierOutcomes, pt \in ProcTimes :
           Score(c, outcome, pt)

NextIntake == Tick \/ PredictIntake

SpecIntake == Init /\ [][NextIntake]_vars

(***************************************************************************)
(* Risk tiers: _determine_risk_level under any configured threshold table  *)
(***************************************************************************)
ThresholdValues == {0, 20000, 40000, 60000, 80000}

ThresholdTables ==
    [{"CRITICAL", "HIGH", "MEDIUM", "LOW"} -> ThresholdValues]

\* the boundaries of the default table, their neighbours, and the ends
ProbPoints ==
    {0, 19999, 20000, 39999, 40000, 59999, 60000, 79999, 80000, ONE}

InitRisk ==
    /\ now = 0
    /\ feature_names \in {ModelFeatures}
    /\ risk_thresholds \in ThresholdTables
    /\ hash_seed \in {0}
    /\ prediction_cache = <<>>
    /\ doctor_claim_counts = NoCounts
    /\ patient_claim_counts = NoCounts
    /\ recent_claims = <<>>
    /\ model_stats = [predictions_made |-> 0, fraud_detected |-> 0,
                      avg_processing_time |-> 0]
    /\ claim = BaseClaim
    /\ last_outcome = ClassifierRaises
    /\ result = NoResult
    /\ inferences = 0
    /\ calls = 0
    /\ threads = [i \in 1..MaxThreads |-> IdleThread]
    /\ lock = 0

\* the tier of one probability; result keeps this evaluation and the one
\* before it
DetermineRiskLevel ==
    /\ \E p \in ProbPoints :
           LET level == _determine_risk_level(p, risk_thresholds)
               first == "probability" \notin DOMAIN result
           IN  result' = [probability |-> p,
                          risk_level |-> level,
                          prev_probability |-> IF first THEN p ELSE result.probability,
                          prev_level |-> IF first THEN level ELSE result.risk_level]
    /\ UNCHANGED <<now, feature_names, risk_thresholds, hash_seed,
                   prediction_cache, doctor_claim_counts, patient_claim_counts,
                   recent_claims, model_stats, claim, last_outcome, inferences,
                   calls, threads, lock>>

NextRisk == DetermineRiskLevel

SpecRisk == InitRisk /\ [][NextRisk]_vars

(***************************************************************************)
(* Cache filling: a run of scoring calls with pairwise distinct            *)
(* fingerprints, long enough to overflow the cache                         *)
(***************************************************************************)
MaxCacheCalls == 1500    \* scoring calls per behaviour of SpecCache
MaxJitterCalls == 1      \* calls during which the clock moves freely

\* the k-th claim of the run: the amount makes the fingerprint unique
CacheClaim(k) == [BaseClaim EXCEPT !.claim_amount = 1000 * k]

\* after the first calls, the clock moves one second after every second call
ClockDue == calls > MaxJitterCalls /\ (calls \div 2 + now) % 2 = 1

ScoreDistinct ==
    /\ calls < MaxCacheCalls
    /\ ~ClockDue
    /\ \E pt \in ProcTimes : Score(CacheClaim(calls + 1), 30000, pt)

\* The clock reading may repeat from one call to the next, so that entries
\* can carry equal timestamps.
CacheTick ==
    /\ calls < MaxCacheCalls
    /\ IF calls <= MaxJitterCalls THEN now <= calls ELSE ClockDue
    /\ now' = now + 1
    /\ UNCHANGED <<feature_names, risk_thresholds, hash_seed, prediction_cache,
                   doctor_claim_counts, patient_claim_counts, recent_claims,
                   model_stats, claim, last_outcome, result, inferences, calls,
                   threads, lock>>

InitCache ==
    /\ InitRisk
    /\ risk_thresholds = DefaultThresholds

NextCache == ScoreDistinct \/ CacheTick

SpecCache == InitCache /\ [][NextCache]_vars

(***************************************************************************)
(* Pattern build-up: one provider resubmitting for one patient, each       *)
(* submission analysed against the ones recorded before it                 *)
(***************************************************************************)
MaxPatternCalls == 12    \* scoring calls per behaviour of SpecPattern

PatternProbs == {0, 30000, ONE}

\* the freshness window elapses after each call
PatternTick ==
    /\ now < CACHE_TTL * calls
    /\ now' = now + CACHE_TTL
    /\ UNCHANGED <<feature_names, risk_thresholds, hash_seed, prediction_cache,
                   doctor_claim_counts, patient_claim_counts, recent_claims,
                   model_stats, claim, last_outcome, result, inferences, calls,
                   threads, lock>>

\* the claim the provider submits, with or without a usable timestamp
PatternClaims == {BaseClaim, [BaseClaim EXCEPT !.ts_kind = EmptyTimestamp]}

\* the provider resubmits the claim of its first call
PredictPattern ==
    /\ calls < MaxPatternCalls
    /\ now = CACHE_TTL * calls
    /\ \E c \in PatternClaims, outcome \in PatternProbs \cup {ClassifierRaises},
          pt \in ProcTimes :
           /\ calls > 0 => c = claim
           /\ Score(c, outcome, pt)

InitPattern ==
    /\ Init
    /\ hash_seed = 0

NextPattern == PatternTick \/ PredictPattern

SpecPattern == InitPattern /\ [][NextPattern]_vars

(***************************************************************************)
(* Concurrent calls: predict_fraud_async hands each call to a worker of    *)
(* the thread pool, and the workers run predict_fraud on the one service   *)
(* object.  A worker can be preempted between any two accesses to the      *)
(* shared stores; only _update_statistics holds self.lock.  Each action    *)
(* below is one worker's run from one access to the next.                  *)
(***************************************************************************)
Workers == 1..MaxThreads

\* the claims worker i may be handed: one whose fingerprint is that of the
\* first claim of a warm-up run, and one that is new
ThreadClaims(i) == {CacheClaim(1), CacheClaim(CACHE_MAX + i)}

Config == <<now, feature_names, risk_thresholds, hash_seed>>

\* worker i goes on to the statement at pc, holding the value it read
Continues(i, pc, local) ==
    /\ threads' = [threads EXCEPT ![i].pc = pc, ![i].local = local]
    /\ UNCHANGED <<claim, last_outcome, result, calls>>

\* worker i returns ret to its caller
Returns(i, ret) ==
    /\ threads' = [threads EXCEPT ![i].pc = "done", ![i].local = 0,
                                  ![i].returned = ret]
    /\ claim' = threads[i].claim
    /\ last_outcome' = threads[i].outcome
    /\ result' = ret
    /\ calls' = calls + 1

\* lines 194-198: the call starts and tests "features_hash in
\* self.prediction_cache"
Begin(i) ==
    /\ threads[i].pc = "idle"
    /\ \E c \in ThreadClaims(i), outcome \in Probs :
           LET found == CacheIndex(prediction_cache, _hash_claim_features(c)) # 0
           IN  threads' = [threads EXCEPT
                              ![i].pc = IF found THEN "cached" ELSE "prepare",
                              ![i].claim = c, ![i].outcome = outcome]
    /\ UNCHANGED <<prediction_cache, doctor_claim_counts, patient_claim_counts,
                   recent_claims, model_stats, inferences, lock, claim,
                   last_outcome, result, calls>>
    /\ UNCHANGED Config

\* lines 199-207: self.prediction_cache[features_hash] raises KeyError when
\* the key has gone since the test; a fresh entry is answered from the cache
ReadCached(i) ==
    LET c == threads[i].claim
        hit == CacheIndex(prediction_cache, _hash_claim_features(c))
    IN  /\ threads[i].pc = "cached"
        /\ IF hit = 0
           THEN /\ Returns(i, ErrorResult)
                /\ UNCHANGED prediction_cache
           ELSE IF CacheFresh(now, prediction_cache[hit])
           THEN LET stored == prediction_cache[hit].prediction
                    flags == Append(stored.flags, "duplicate_claim_detected")
                IN  /\ Returns(i, [stored EXCEPT !.flags = flags,
                                                 !.from_cache = TRUE])
                    /\ prediction_cache' =
                           [prediction_cache EXCEPT ![hit].prediction.flags = flags]
           ELSE /\ Continues(i, "prepare", 0)
                /\ UNCHANGED prediction_cache
        /\ UNCHANGED <<doctor_claim_counts, patient_claim_counts, recent_claims,
                       model_stats, inferences, lock>>
        /\ UNCHANGED Config

\* lines 209-247: features, classifier, pattern analysis and the result dict
ScoreClaim(i) ==
    LET c == threads[i].claim
        df == _prepare_features(c, now, doctor_claim_counts, hash_seed,
                                feature_names)
        pattern == _analyze_patterns(c, doctor_claim_counts,
                       patient_claim_counts, recent_claims, now)
        res == FreshResult(c, threads[i].outcome, pattern, df, 12,
                           risk_thresholds)
    IN  /\ threads[i].pc = "prepare"
        /\ IF PrepareRaises(c)
           THEN /\ Returns(i, ErrorResult)
                /\ UNCHANGED inferences
           ELSE /\ threads' = [threads EXCEPT ![i].pc = "statistics",
                                              ![i].result = res]
                /\ inferences' = inferences + 1
                /\ UNCHANGED <<claim, last_outcome, result, calls>>
        /\ UNCHANGED <<prediction_cache, doctor_claim_counts,
                       patient_claim_counts, recent_claims, model_stats, lock>>
        /\ UNCHANGED Config

LockFree_not_taken(l) == TRUE

\* "with self.lock:" is entered when no worker holds the lock
LockFree(l) == l = 0

\* lines 594-596: the lock is taken and the counters are read
EnterStatistics(i) ==
    /\ threads[i].pc = "statistics"
    /\ LockFree(lock)
    /\ lock' = i
    /\ Continues(i, "statistics_locked", model_stats)
    /\ UNCHANGED <<prediction_cache, doctor_claim_counts, patient_claim_counts,
                   recent_claims, model_stats, inferences>>
    /\ UNCHANGED Config

\* lines 595-604: the counters are written and the lock is released
LeaveStatistics(i) ==
    /\ threads[i].pc = "statistics_locked"
    /\ model_stats' = _update_statistics(threads[i].local, threads[i].result, 12)
    /\ lock' = 0
    /\ Continues(i, "cache_put", 0)
    /\ UNCHANGED <<prediction_cache, doctor_claim_counts, patient_claim_counts,
                   recent_claims, inferences>>
    /\ UNCHANGED Config

\* lines 610-615: self.prediction_cache[features_hash] = PredictionCache(...)
CacheInsert(i) ==
    LET c == threads[i].claim
    IN  /\ threads[i].pc = "cache_put"
        /\ prediction_cache' =
               CachePut(prediction_cache,
                        [claim_id |-> Get(c.claim_id, "UNKNOWN_" \o ToString(now)),
                         prediction |-> threads[i].result,
                         timestamp |-> now,
                         features_hash |-> _hash_claim_features(c)])
        /\ Continues(i, "cache_len", 0)
        /\ UNCHANGED <<doctor_claim_counts, patient_claim_counts, recent_claims,
                       model_stats, inferences, lock>>
        /\ UNCHANGED Config

\* the keys of a cache, in dict order
KeysOf(cache) == [k \in DOMAIN cache |-> cache[k].features_hash]

\* lines 618-619: above 1000 entries min() starts to iterate over the keys
CacheLen(i) ==
    /\ threads[i].pc = "cache_len"
    /\ IF Len(prediction_cache) > CACHE_MAX
       THEN Continues(i, "cache_min", KeysOf(prediction_cache))
       ELSE Continues(i, "track_doctor", 0)
    /\ UNCHANGED <<prediction_cache, doctor_claim_counts, patient_claim_counts,
                   recent_claims, model_stats, inferences, lock>>
    /\ UNCHANGED Config

\* What min(self.prediction_cache.keys(), key=...) gives when the dict had
\* the keys `seen` as the iteration began and is `cache` as it ends: the
\* oldest key, or "<raise>".  The iterator raises RuntimeError when the dict
\* has changed size; when keys were replaced without a change of size the
\* call may raise KeyError in the key function, or return the oldest key of
\* the dict as it was or as it is.
MinOutcomes(seen, cache) ==
    IF Len(cache) # Len(seen) THEN {"<raise>"}
    ELSE IF KeysOf(cache) = seen THEN {seen[OldestIndex(cache)]}
    ELSE {"<raise>", seen[1], KeysOf(cache)[OldestIndex(cache)]}

\* lines 619-622: the iteration ends
CacheMin(i) ==
    /\ threads[i].pc = "cache_min"
    /\ \E oldest_key \in MinOutcomes(threads[i].local, prediction_cache) :
           IF oldest_key = "<raise>"
           THEN Returns(i, ErrorResult)
           ELSE Continues(i, "cache_del", oldest_key)
    /\ UNCHANGED <<prediction_cache, doctor_claim_counts, patient_claim_counts,
                   recent_claims, model_stats, inferences, lock>>
    /\ UNCHANGED Config

\* line 623: del self.prediction_cache[oldest_key] raises KeyError when
\* another worker has deleted the key
CacheDelete(i) ==
    LET at == CacheIndex(prediction_cache, threads[i].local)
    IN  /\ threads[i].pc = "cache_del"
        /\ IF at = 0
           THEN /\ Returns(i, ErrorResult)
                /\ UNCHANGED prediction_cache
           ELSE /\ Continues(i, "track_doctor", 0)
                /\ prediction_cache' = RemoveAt(prediction_cache, at)
        /\ UNCHANGED <<doctor_claim_counts, patient_claim_counts, recent_claims,
                       model_stats, inferences, lock>>
        /\ UNCHANGED Config

\* counts[key] = value
SetCount(counts, key, value) ==
    [k \in DOMAIN counts \cup {key} |-> IF k = key THEN value ELSE counts[k]]

\* lines 630-633: self.doctor_claim_counts.get(doctor_id, 0)
ReadDoctorCount(i) ==
    LET doctor_id == Get(threads[i].claim.doctor_id, "")
    IN  /\ threads[i].pc = "track_doctor"
        /\ IF Truthy(doctor_id)
           THEN Continues(i, "track_doctor_store",
                          CountOf(doctor_claim_counts, doctor_id))
           ELSE Continues(i, "track_patient", 0)
        /\ UNCHANGED <<prediction_cache, doctor_claim_counts,
                       patient_claim_counts, recent_claims, model_stats,
                       inferences, lock>>
        /\ UNCHANGED Config

\* lines 632-634: self.doctor_claim_counts[doctor_id] = ... + 1
StoreDoctorCount(i) ==
    /\ threads[i].pc = "track_doctor_store"
    /\ doctor_claim_counts' =
           SetCount(doctor_claim_counts, threads[i].claim.doctor_id,
                    threads[i].local + 1)
    /\ Continues(i, "track_patient", 0)
    /\ UNCHANGED <<prediction_cache, patient_claim_counts, recent_claims,
                   model_stats, inferences, lock>>
    /\ UNCHANGED Config

\* lines 637-640: self.patient_claim_counts.get(patient_id, 0)
ReadPatientCount(i) ==
    LET patient_id == Get(threads[i].claim.patient_id, "")
    IN  /\ threads[i].pc = "track_patient"
        /\ IF Truthy(patient_id)
           THEN Continues(i, "track_patient_store",
                          CountOf(patient_claim_counts, patient_id))
           ELSE Continues(i, "track_recent", 0)
        /\ UNCHANGED <<prediction_cache, doctor_claim_counts,
                       patient_claim_counts, recent_claims, model_stats,
                       inferences, lock>>
        /\ UNCHANGED Config

\* lines 639-641: self.patient_claim_counts[patient_id] = ... + 1
StorePatientCount(i) ==
    /\ threads[i].pc = "track_patient_store"
    /\ patient_claim_counts' =
           SetCount(patient_claim_counts, threads[i].claim.patient_id,
                    threads[i].local + 1)
    /\ Continues(i, "track_recent", 0)
    /\ UNCHANGED <<prediction_cache, doctor_claim_counts, recent_claims,
                   model_stats, inferences, lock>>
    /\ UNCHANGED Config

\* lines 644-646 and 254-259: the claim is appended to recent_claims, the
\* list is trimmed and the result is returned
AppendRecent(i) ==
    LET appended == Append(recent_claims, threads[i].claim)
    IN  /\ threads[i].pc = "track_recent"
        /\ recent_claims' =
               IF Len(appended) > RECENT_MAX THEN Tail(appended) ELSE appended
        /\ Returns(i, threads[i].result)
        /\ UNCHANGED <<prediction_cache, doctor_claim_counts,
                       patient_claim_counts, model_stats, inferences, lock>>
        /\ UNCHANGED Config

\* the steps a worker takes while the cache is below its capacity
WorkerStep(i) ==
    \/ ReadCached(i)
    \/ ScoreClaim(i)
    \/ EnterStatistics(i)
    \/ LeaveStatistics(i)
    \/ CacheInsert(i)
    \/ CacheLen(i)
    \/ ReadDoctorCount(i)
    \/ StoreDoctorCount(i)
    \/ ReadPatientCount(i)
    \/ StorePatientCount(i)
    \/ AppendRecent(i)

\* the steps of the eviction
EvictStep(i) == CacheMin(i) \/ CacheDelete(i)

\* A burst of calls on the engine as constructed.
NextThreads == \E i \in Workers : (Begin(i) \/ WorkerStep(i))

SpecThreads == InitCache /\ [][NextThreads]_vars

(***************************************************************************)
(* Statistics snapshots taken while calls are scored                       *)
(***************************************************************************)
\* get_model_stats is called
BeginSnapshot(i) ==
    /\ threads[i].pc = "idle"
    /\ Continues(i, "snapshot", 0)
    /\ UNCHANGED <<prediction_cache, doctor_claim_counts, patient_claim_counts,
                   recent_claims, model_stats, inferences, lock>>
    /\ UNCHANGED Config

EnterSnapshot_unlocked(i) ==
    /\ threads[i].pc = "snapshot"
    /\ Continues(i, "snapshot_locked", 0)
    /\ UNCHANGED <<prediction_cache, doctor_claim_counts, patient_claim_counts,
                   recent_claims, model_stats, inferences, lock>>
    /\ UNCHANGED Config

\* line 180: "with self.lock:" is entered
EnterSnapshot(i) ==
    /\ threads[i].pc = "snapshot"
    /\ LockFree(lock)
    /\ lock' = i
    /\ Continues(i, "snapshot_locked", 0)
    /\ UNCHANGED <<prediction_cache, doctor_claim_counts, patient_claim_counts,
                   recent_claims, model_stats, inferences>>
    /\ UNCHANGED Config

LeaveSnapshot_lock_kept(i) ==
    /\ threads[i].pc = "snapshot_locked"
    /\ threads' = [threads EXCEPT ![i].pc = "done", ![i].returned = model_stats]
    /\ UNCHANGED <<prediction_cache, doctor_claim_counts, patient_claim_counts,
                   recent_claims, model_stats, inferences, lock, claim,
                   last_outcome, result, calls>>
    /\ UNCHANGED Config

\* line 181: the copy of the counters is returned and the lock is released
LeaveSnapshot(i) ==
    /\ threads[i].pc = "snapshot_locked"
    /\ threads' = [threads EXCEPT ![i].pc = "done", ![i].returned = model_stats]
    /\ lock' = 0
    /\ UNCHANGED <<prediction_cache, doctor_claim_counts, patient_claim_counts,
                   recent_claims, model_stats, inferences, claim, last_outcome,
                   result, calls>>
    /\ UNCHANGED Config

SnapshotStep(i) == EnterSnapshot(i) \/ LeaveSnapshot(i)

NextSnapshot ==
    \E i \in Workers :
        (Begin(i) \/ BeginSnapshot(i) \/ WorkerStep(i) \/ SnapshotStep(i))

SpecSnapshot == InitCache /\ [][NextSnapshot]_vars

\* a call for the claim every worker is handed when the calls contend for
\* one fingerprint
BeginLive(i) ==
    /\ Begin(i)
    /\ threads'[i].claim = CacheClaim(1)
    /\ threads'[i].outcome = 30000

NextLive ==
    \E i \in Workers :
        (BeginLive(i) \/ BeginSnapshot(i) \/ WorkerStep(i) \/ SnapshotStep(i))

\* The interpreter lets every thread that can run take its next step: a
\* started call or snapshot is not left waiting for ever.
SpecLive ==
    /\ InitCache
    /\ [][NextLive]_vars
    /\ \A i \in Workers : WF_vars(WorkerStep(i) \/ SnapshotStep(i))


(***************************************************************************)
(* The statistics update statement by statement, with snapshots taken and  *)
(* edited by their callers meanwhile                                       *)
(***************************************************************************)
\* line 595: self.model_stats["predictions_made"] += 1
CountPrediction(i) ==
    /\ threads[i].pc = "statistics_locked"
    /\ model_stats' = [model_stats EXCEPT !.predictions_made = @ + 1]
    /\ Continues(i, "statistics_fraud", 0)
    /\ UNCHANGED <<prediction_cache, doctor_claim_counts, patient_claim_counts,
                   recent_claims, inferences, lock>>
    /\ UNCHANGED Config

\* lines 596-597: fraud_detected grows when the result has is_fraud
CountFraud(i) ==
    /\ threads[i].pc = "statistics_fraud"
    /\ model_stats' =
           [model_stats EXCEPT !.fraud_detected =
                @ + (IF threads[i].result.is_fraud THEN 1 ELSE 0)]
    /\ Continues(i, "statistics_average", 0)
    /\ UNCHANGED <<prediction_cache, doctor_claim_counts, patient_claim_counts,
                   recent_claims, inferences, lock>>
    /\ UNCHANGED Config

\* lines 600-604: the average is stored and the lock is released
StoreAverage(i) ==
    LET total_predictions == model_stats.predictions_made
        current_avg == model_stats.avg_processing_time
    IN  /\ threads[i].pc = "statistics_average"
        /\ model_stats' =
               [model_stats EXCEPT !.avg_processing_time =
                    (current_avg * (total_predictions - 1) + 12)
                        \div total_predictions]
        /\ lock' = 0
        /\ Continues(i, "cache_put", 0)
        /\ UNCHANGED <<prediction_cache, doctor_claim_counts,
                       patient_claim_counts, recent_claims, inferences>>
        /\ UNCHANGED Config

\* get_model_stats returns self.model_stats.copy(): a dict of its own, whose
\* values are numbers
SnapshotAliased == FALSE

\* the caller of a snapshot overwrites a value of the dict it was handed
EditSnapshot(i) ==
    /\ threads[i].pc = "done"
    /\ "avg_processing_time" \in DOMAIN threads[i].returned
    /\ threads[i].returned.avg_processing_time # -1
    /\ LET edited == [threads[i].returned EXCEPT !.avg_processing_time = -1]
       IN  /\ threads' = [threads EXCEPT ![i].returned = edited]
           /\ model_stats' = IF SnapshotAliased THEN edited ELSE model_stats
    /\ UNCHANGED <<prediction_cache, doctor_claim_counts, patient_claim_counts,
                   recent_claims, inferences, lock, claim, last_outcome, result,
                   calls>>
    /\ UNCHANGED Config

StatsWorkerStep(i) ==
    \/ ReadCached(i)
    \/ ScoreClaim(i)
    \/ EnterStatistics(i)
    \/ CountPrediction(i)
    \/ CountFraud(i)
    \/ StoreAverage(i)
    \/ CacheInsert(i)
    \/ CacheLen(i)
    \/ ReadDoctorCount(i)
    \/ StoreDoctorCount(i)
    \/ ReadPatientCount(i)
    \/ StorePatientCount(i)
    \/ AppendRecent(i)

NextStats ==
    \E i \in Workers :
        \/ Begin(i)
        \/ BeginSnapshot(i)
        \/ StatsWorkerStep(i)
        \/ SnapshotStep(i)
        \/ EditSnapshot(i)

SpecStats == InitCache /\ [][NextStats]_vars

\* A burst of calls on an engine whose cache has been filled by a run of
\* sequential calls.
WarmUp ==
    /\ calls < CACHE_MAX
    /\ \E pt \in ProcTimes : Score(CacheClaim(calls + 1), 30000, pt)

BeginWarm(i) == calls >= CACHE_MAX /\ Begin(i)

NextFull ==
    \/ WarmUp
    \/ \E i \in Workers : (BeginWarm(i) \/ WorkerStep(i) \/ EvictStep(i))

SpecFull == InitCache /\ [][NextFull]_vars

(***************************************************************************)
(* Fingerprints: _hash_claim_features applied to two claims                *)
(***************************************************************************)
\* claims that vary in each of the five hashed fields, in the way the
\* amount is written, and in fields that are not hashed
FingerprintClaims ==
    {[BaseClaim EXCEPT !.patient_id = p, !.doctor_id = d, !.claim_amount = a,
                       !.amount_kind = k, !.diagnosis_code = dx,
                       !.facility_location = f, !.claim_id = id, !.ts_kind = ts] :
        p \in {"P1", "P2"}, d \in {"D1", "DR_X1"}, a \in {100000, 500000},
        k \in {"int", "float"}, dx \in {"Z00.0", "J45.9"},
        f \in {"WINDHOEK", "OSHAKATI"}, id \in {"CLM", "CLM2"},
        ts \in {Absent, "iso"}}

\* the engine as constructed, and the first claim
InitFingerprint ==
    /\ now = 0
    /\ feature_names = ModelFeatures
    /\ risk_thresholds = DefaultThresholds
    /\ hash_seed = 0
    /\ prediction_cache = <<>>
    /\ doctor_claim_counts = NoCounts
    /\ patient_claim_counts = NoCounts
    /\ recent_claims = <<>>
    /\ model_stats = [predictions_made |-> 0, fraud_detected |-> 0,
                      avg_processing_time |-> 0]
    /\ claim \in FingerprintClaims
    /\ last_outcome = ClassifierRaises
    /\ result = NoResult
    /\ inferences = 0
    /\ calls = 0
    /\ threads = [i \in 1..MaxThreads |-> IdleThread]
    /\ lock = 0

\* the fingerprint of the claim and of a second claim, as predict_fraud
\* takes them at line 197
HashClaims ==
    /\ result = NoResult
    /\ \E b \in FingerprintClaims :
           result' = [other |-> b,
                      features_hash |-> _hash_claim_features(claim),
                      other_hash |-> _hash_claim_features(b)]
    /\ UNCHANGED <<now, feature_names, risk_thresholds, hash_seed,
                   prediction_cache, doctor_claim_counts, patient_claim_counts,
                   recent_claims, model_stats, claim, last_outcome, inferences,
                   calls, threads, lock>>

NextFingerprint == HashClaims

SpecFingerprint == InitFingerprint /\ [][NextFingerprint]_vars

(***************************************************************************)
(* Replay: the same claim scored twice from the same engine state, as by   *)
(* two service processes restored to that state.  What a call reads beyond *)
(* its claim and the stores: the clock (lines 193-200, 233, 282, 452,      *)
(* 613) and the string-hash seed of its process (line 390).                *)
(***************************************************************************)
MaxReplayCalls == 1    \* scoring calls per behaviour of SpecReplay

ElapsedTimes == {12, 15}    \* elapsed milliseconds a call may measure

ReplayClaims == Claims \cup {[BaseClaim EXCEPT !.ts_kind = "iso"]}

\* result holds the two evaluations of a replay
Replayed == "second" \in DOMAIN result

\* time passes until the replay is made
ReplayTick == ~Replayed /\ Tick

PredictReplay ==
    /\ ~Replayed
    /\ calls < MaxReplayCalls
    /\ \E c \in Claims, outcome \in ClassifierOutcomes, pt \in ProcTimes :
           Score(c, outcome, pt)

\* two evaluations of predict_fraud(c) on the present stores; the
\* classifier is the same function in both
Replay ==
    /\ ~Replayed
    /\ \E c \in ReplayClaims, outcome \in Probs, t \in Instants,
          elapsed \in ElapsedTimes, seed \in HashSeeds :
           /\ t >= now
           /\ LET first == predict_fraud(Engine, c, now, outcome, 12, hash_seed,
                                         feature_names, risk_thresholds)
                  second == predict_fraud(Engine, c, t, outcome, elapsed, seed,
                                          feature_names, risk_thresholds)
              IN  result' =
                      [first |-> first.result,
                       second |-> second.result,
                       first_features |->
                           _prepare_features(c, now, doctor_claim_counts,
                                             hash_seed, feature_names),
                       second_features |->
                           _prepare_features(c, t, doctor_claim_counts, seed,
                                             feature_names),
                       replayed |-> c,
                       clock |-> <<now, t>>,
                       elapsed |-> <<12, elapsed>>,
                       seeds |-> <<hash_seed, seed>>]
    /\ UNCHANGED <<now, feature_names, risk_thresholds, hash_seed,
                   prediction_cache, doctor_claim_counts, patient_claim_counts,
                   recent_claims, model_stats, claim, last_outcome, inferences,
                   calls, threads, lock>>

NextReplay == ReplayTick \/ PredictReplay \/ Replay

SpecReplay == Init /\ [][NextReplay]_vars

(***************************************************************************)
(* One provider's day: a doctor submitting claims for different patients   *)
(* and of different amounts, so that only the doctor's counter builds up   *)
(***************************************************************************)
MaxDoctorCalls == 13    \* scoring calls per behaviour of SpecDoctor

\* the k-th claim of the doctor
DoctorClaim(k) ==
    [BaseClaim EXCEPT !.claim_id = "CLM" \o ToString(k),
                      !.patient_id = "P" \o ToString(k),
                      !.claim_amount = 1000 * k]

PredictDoctor ==
    /\ calls < MaxDoctorCalls
    /\ \E pt \in ProcTimes : Score(DoctorClaim(calls + 1), 30000, pt)

NextDoctor == Tick \/ PredictDoctor

SpecDoctor == Init /\ [][NextDoctor]_vars

(***************************************************************************)
(* Template claims: a few claims of one amount, a run of other claims,     *)
(* then claims of that amount again, every claim by another doctor for     *)
(* another patient                                                         *)
(***************************************************************************)
MaxAmountCalls == 54    \* scoring calls per behaviour of SpecAmount

\* 500.00, 500.005 and 500.01
TemplateAmounts == {500000, 500005, 500010}

\* the amounts the k-th claim may have
AmountsOf(k) == IF k <= 3 \/ k > 50 THEN TemplateAmounts ELSE {1000 * k}

AmountClaim(k, amount) ==
    [BaseClaim EXCEPT !.claim_id = "CLM" \o ToString(k),
                      !.patient_id = "P" \o ToString(k),
                      !.doctor_id = "D" \o ToString(k),
                      !.claim_amount = amount]

PredictAmount ==
    /\ calls < MaxAmountCalls
    /\ \E amount \in AmountsOf(calls + 1), pt \in ProcTimes :
           Score(AmountClaim(calls + 1, amount), 30000, pt)

NextAmount == PredictAmount

SpecAmount == InitCache /\ [][NextAmount]_vars

(***************************************************************************)
(* Amount flags under the feature lists a deployment may configure:        *)
(* feature_info.json names the columns the classifier was trained on, and  *)
(* _prepare_features keeps exactly those columns                           *)
(***************************************************************************)
MaxFlagCalls == 2    \* scoring calls per behaviour of SpecFlags

\* a feature list of a classifier trained on the logarithm of the amount
LogAmountFeatures ==
    <<"patient_age", "hour", "day_of_week", "is_weekend", "is_after_hours",
      "biometric_verified", "patient_present", "patient_deceased",
      "emergency_case", "location_mismatch", "is_high_risk_doctor",
      "log_claim_amount", "diagnosis_code_encoded">>

FlagFeatureLists == FeatureNameLists \cup {LogAmountFeatures}

\* 500, 10000, 10000.01, 50000, 50000.01 and 75000
FlagAmounts == {500000, 10000000, 10000010, 50000000, 50000010, 75000000}

InitFlags ==
    /\ now = 0
    /\ feature_names \in FlagFeatureLists
    /\ risk_thresholds = DefaultThresholds
    /\ hash_seed = 0
    /\ prediction_cache = <<>>
    /\ doctor_claim_counts = NoCounts
    /\ patient_claim_counts = NoCounts
    /\ recent_claims = <<>>
    /\ model_stats = [predictions_made |-> 0, fraud_detected |-> 0,
                      avg_processing_time |-> 0]
    /\ claim = BaseClaim
    /\ last_outcome = ClassifierRaises
    /\ result = NoResult
    /\ inferences = 0
    /\ calls = 0
    /\ threads = [i \in 1..MaxThreads |-> IdleThread]
    /\ lock = 0

PredictFlags ==
    /\ calls < MaxFlagCalls
    /\ \E amount \in FlagAmounts, outcome \in Probs, pt \in ProcTimes :
           Score([BaseClaim EXCEPT !.claim_amount = amount], outcome, pt)

NextFlags == PredictFlags

SpecFlags == InitFlags /\ [][NextFlags]_vars

(***************************************************************************)
(* A burst: claims by different doctors for different patients, all        *)
(* submitted at one clock reading, the first and the last ones stamped in  *)
(* any way a caller may stamp them                                         *)
(***************************************************************************)
MaxBurstCalls == 23    \* scoring calls per behaviour of SpecBurst

BurstTime == 400       \* the clock reading of the burst

\* a claim stamped: not at all, now, 400 s ago, 1000 s ahead, or with ""
Stamps == {"absent", "now", "old", "ahead", "empty"}

Stamped(c, stamp) ==
    CASE stamp = "absent" -> [c EXCEPT !.ts_kind = Absent]
      [] stamp = "now" -> [c EXCEPT !.ts_kind = "iso", !.ts_value = BurstTime]
      [] stamp = "old" -> [c EXCEPT !.ts_kind = "iso", !.ts_value = BurstTime - 400]
      [] stamp = "ahead" -> [c EXCEPT !.ts_kind = "iso", !.ts_value = BurstTime + 1000]
      [] OTHER -> [c EXCEPT !.ts_kind = EmptyTimestamp]

\* the stamps the k-th claim of the burst may carry
StampsOf(k) == IF k = 1 \/ k > 21 THEN Stamps ELSE {"now"}

InitBurst ==
    /\ now = BurstTime
    /\ feature_names = ModelFeatures
    /\ risk_thresholds = DefaultThresholds
    /\ hash_seed = 0
    /\ prediction_cache = <<>>
    /\ doctor_claim_counts = NoCounts
    /\ patient_claim_counts = NoCounts
    /\ recent_claims = <<>>
    /\ model_stats = [predictions_made |-> 0, fraud_detected |-> 0,
                      avg_processing_time |-> 0]
    /\ claim = BaseClaim
    /\ last_outcome = ClassifierRaises
    /\ result = NoResult
    /\ inferences = 0
    /\ calls = 0
    /\ threads = [i \in 1..MaxThreads |-> IdleThread]
    /\ lock = 0

PredictBurst ==
    /\ calls < MaxBurstCalls
    /\ \E stamp \in StampsOf(calls + 1), pt \in ProcTimes :
           Score(Stamped(AmountClaim(calls + 1, 1000 * (calls + 1)), stamp),
                 30000, pt)

NextBurst == PredictBurst

SpecBurst == InitBurst /\ [][NextBurst]_vars

(***************************************************************************)
(* Startup: the application's lifespan builds the engine, whose            *)
(* constructor loads and validates the classifier, and then the            *)
(* application answers requests                                            *)
(***************************************************************************)
MaxRequests == 2

\* what the models directory holds: no final_*_model.pkl, an object
\* without predict_proba, or a classifier
Artifacts == {"missing", "no_predict_proba", "classifier"}

\* what the classifier answers for the dummy claim of _validate_model
ValidationProbs == {30000, ONE + 50000, ClassifierRaises}

dummy_claim ==
    [BaseClaim EXCEPT !.claim_id = "TEST_001", !.patient_id = Absent,
                      !.doctor_id = Absent, !.claim_amount = 1000000,
                      !.ts_kind = "iso"]

\* _validate_model raises: preparation or the classifier raised, or the
\* probability is outside [0, 1]
ValidateRaises(prob) ==
    \/ PrepareRaises(dummy_claim)
    \/ prob = ClassifierRaises
    \/ ~(0 <= prob /\ prob <= ONE)

\* _load_model_pipeline raises, and with it the constructor
LoadRaises(artifact, prob) ==
    \/ artifact = "missing"
    \/ artifact = "no_predict_proba"
    \/ ValidateRaises(prob)

NoResponse == [status |-> 0, detail |-> "none"]

\* the process before lifespan runs: the module globals are None
InitStartup ==
    /\ now = 0
    /\ feature_names \in FeatureNameLists
    /\ risk_thresholds = DefaultThresholds
    /\ hash_seed = 0
    /\ prediction_cache = <<>>
    /\ doctor_claim_counts = NoCounts
    /\ patient_claim_counts = NoCounts
    /\ recent_claims = <<>>
    /\ model_stats = [predictions_made |-> 0, fraud_detected |-> 0,
                      avg_processing_time |-> 0]
    /\ claim = BaseClaim
    /\ last_outcome = ClassifierRaises
    /\ \E artifact \in Artifacts, prob \in ValidationProbs, stores \in BOOLEAN :
           result = [phase |-> "starting", artifact |-> artifact,
                     validation |-> prob, stores_connect |-> stores,
                     fraud_service |-> FALSE, redis_service |-> FALSE,
                     db_service |-> FALSE, redis |-> {},
                     response |-> NoResponse]
    /\ inferences = 0
    /\ calls = 0
    /\ threads = [i \in 1..MaxThreads |-> IdleThread]
    /\ lock = 0

\* lifespan up to its yield: the three constructors run in one try block
\* whose except branch logs and yields as well
lifespan ==
    /\ result.phase = "starting"
    /\ LET built == ~LoadRaises(result.artifact, result.validation)
           stores == built /\ result.stores_connect
       IN  result' = [result EXCEPT !.phase = "serving",
                                    !.fraud_service = built,
                                    !.redis_service = stores,
                                    !.db_service = stores]
    /\ UNCHANGED <<now, feature_names, risk_thresholds, hash_seed,
                   prediction_cache, doctor_claim_counts, patient_claim_counts,
                   recent_claims, model_stats, claim, last_outcome, inferences,
                   calls, threads, lock>>

\* GET /
root ==
    /\ result.phase = "serving"
    /\ calls < MaxRequests
    /\ result' = [result EXCEPT !.response = [status |-> 200, detail |-> "running"]]
    /\ calls' = calls + 1
    /\ UNCHANGED <<now, feature_names, risk_thresholds, hash_seed,
                   prediction_cache, doctor_claim_counts, patient_claim_counts,
                   recent_claims, model_stats, claim, last_outcome, inferences,
                   threads, lock>>

\* GET /api/v1/health: status is "healthy" whatever the services report
health_check ==
    /\ result.phase = "serving"
    /\ calls < MaxRequests
    /\ result' = [result EXCEPT !.response =
                      [status |-> 200,
                       detail |-> IF result.fraud_service
                                  THEN "ml_model healthy"
                                  ELSE "ml_model unhealthy"]]
    /\ calls' = calls + 1
    /\ UNCHANGED <<now, feature_names, risk_thresholds, hash_seed,
                   prediction_cache, doctor_claim_counts, patient_claim_counts,
                   recent_claims, model_stats, claim, last_outcome, inferences,
                   threads, lock>>

PREDICTION_EXPIRY == 3600    \* seconds a cached prediction lives in Redis

\* ClaimRequest as the endpoint receives it: the timestamp validator puts the
\* current time where the body gives none, and claim_amount is a float
ClaimRequest(c, t) ==
    LET unset == c.ts_kind \in {Absent, Null, EmptyTimestamp}
    IN  [c EXCEPT !.ts_kind = IF unset THEN "iso" ELSE @,
                  !.ts_value = IF unset THEN t ELSE @,
                  !.amount_kind = "float"]

\* RedisService._generate_cache_key: four fields and the first ten
\* characters of the timestamp, the date of an ISO timestamp (-1 stands for
\* the prefix of a string that is no date)
_generate_cache_key(c) ==
    <<c.claim_amount, c.diagnosis_code, c.doctor_id, c.patient_id,
      IF c.ts_kind = "iso" THEN c.ts_value \div DAY ELSE -1>>

\* the entries of the store Redis has not expired at t
Unexpired(redis, t) == {e \in redis : t - e.cached_at < PREDICTION_EXPIRY}

\* RedisService.get_cached_prediction: the "prediction" member of the entry
\* under the claim's key, NoResult for None
get_cached_prediction(redis, c, t) ==
    LET found == {e \in Unexpired(redis, t) : e.key = _generate_cache_key(c)}
    IN  IF found = {} THEN NoResult ELSE (CHOOSE e \in found : TRUE).prediction

\* RedisService.cache_prediction: setex replaces the entry under the key
cache_prediction(redis, c, prediction_result, t) ==
    {e \in Unexpired(redis, t) : e.key # _generate_cache_key(c)}
        \cup {[key |-> _generate_cache_key(c), prediction |-> prediction_result,
               cached_at |-> t]}

\* FraudResponse(...).dict() of a fresh scoring, lines 172-182: every field
\* of the model is a key of the dict, from_cache among them
FraudResponse(c, r) ==
    [claim_id |-> c.claim_id, is_fraud |-> r.is_fraud,
     fraud_probability |-> r.fraud_probability, risk_level |-> r.risk_level,
     from_cache |-> FALSE]

\* FraudResponse(**cached, from_cache=True) at line 166 raises TypeError when
\* the cached dict has the key from_cache itself: a keyword given twice
CachedResponseRaises(cached) == "from_cache" \in DOMAIN cached

\* POST /api/v1/detect-fraud: the dependencies answer 503 for a service that
\* is None; a prediction Redis holds for the claim's key is turned into the
\* response without scoring; a fresh scoring is answered and cached; an
\* exception, the one raised for a failure result included, becomes a 500
detect_fraud(body, outcome, processing_time) ==
    LET c == ClaimRequest(body, now)
        unavailable == ~result.fraud_service \/ ~result.redis_service
                           \/ ~result.db_service
        cached == get_cached_prediction(result.redis, c, now)
        hit == ~unavailable /\ cached # NoResult
        scored == ~unavailable /\ ~hit
        r == predict_fraud(Engine, c, now, outcome, processing_time,
                           hash_seed, feature_names, risk_thresholds)
        failed == "error" \in DOMAIN r.result
        e == IF scored THEN r.engine ELSE Engine
    IN  /\ result.phase = "serving"
        /\ calls < MaxRequests
        /\ result' = [result EXCEPT
               !.response =
                   IF ~result.fraud_service
                   THEN [status |-> 503, detail |-> "Fraud service unavailable"]
                   ELSE IF ~result.redis_service
                   THEN [status |-> 503, detail |-> "Redis unavailable"]
                   ELSE IF ~result.db_service
                   THEN [status |-> 503, detail |-> "DB unavailable"]
                   ELSE IF hit
                   THEN IF CachedResponseRaises(cached)
                        THEN [status |-> 500, detail |-> "Internal error"]
                        ELSE [status |-> 200, detail |-> cached.risk_level,
                              from_cache |-> TRUE]
                   ELSE IF failed
                   THEN [status |-> 500, detail |-> "Internal error"]
                   ELSE [status |-> 200, detail |-> r.result.risk_level,
                         from_cache |-> FALSE],
               !.redis =
                   IF scored /\ ~failed
                   THEN cache_prediction(@, c, FraudResponse(c, r.result), now)
                   ELSE @]
        /\ claim' = c
        /\ last_outcome' = outcome
        /\ prediction_cache' = e.prediction_cache
        /\ doctor_claim_counts' = e.doctor_claim_counts
        /\ patient_claim_counts' = e.patient_claim_counts
        /\ recent_claims' = e.recent_claims
        /\ model_stats' = e.model_stats
        /\ inferences' = inferences + (IF scored THEN r.inferred ELSE 0)
        /\ calls' = calls + 1
        /\ UNCHANGED <<now, feature_names, risk_thresholds, hash_seed,
                       threads, lock>>

Request ==
    \/ root
    \/ health_check
    \/ \E c \in Claims, outcome \in ClassifierOutcomes, pt \in ProcTimes :
           detect_fraud(c, outcome, pt)

NextStartup == lifespan \/ Request

SpecStartup == InitStartup /\ [][NextStartup]_vars

(***************************************************************************)
(* The endpoint in front of a running service: requests arrive over time,  *)
(* the predictions of earlier requests are in Redis until they expire      *)
(***************************************************************************)
\* bodies with and without a timestamp of their own
RedisClaims ==
    Claims \cup {[BaseClaim EXCEPT !.ts_kind = "iso", !.ts_value = 0]}

\* lifespan has built the three services and Redis holds no prediction
InitRedis ==
    /\ now = 0
    /\ feature_names \in FeatureNameLists
    /\ risk_thresholds = DefaultThresholds
    /\ hash_seed = 0
    /\ prediction_cache = <<>>
    /\ doctor_claim_counts = NoCounts
    /\ patient_claim_counts = NoCounts
    /\ recent_claims = <<>>
    /\ model_stats = [predictions_made |-> 0, fraud_detected |-> 0,
                      avg_processing_time |-> 0]
    /\ claim = BaseClaim
    /\ last_outcome = ClassifierRaises
    /\ result = [phase |-> "serving", artifact |-> "classifier",
                 validation |-> 30000, stores_connect |-> TRUE,
                 fraud_service |-> TRUE, redis_service |-> TRUE,
                 db_service |-> TRUE, redis |-> {}, response |-> NoResponse]
    /\ inferences = 0
    /\ calls = 0
    /\ threads = [i \in 1..MaxThreads |-> IdleThread]
    /\ lock = 0

NextRedis ==
    \/ Tick
    \/ \E c \in RedisClaims, outcome \in ClassifierOutcomes, pt \in ProcTimes :
           detect_fraud(c, outcome, pt)

SpecRedis == InitRedis /\ [][NextRedis]_vars

(***************************************************************************)
(* Feature preparation on its own: the frame _prepare_features returns     *)
(* for a claim under a configured feature list                             *)
(***************************************************************************)
InitFeatures ==
    /\ now = 0
    /\ feature_names \in FlagFeatureLists
    /\ risk_thresholds = DefaultThresholds
    /\ hash_seed \in HashSeeds
    /\ prediction_cache = <<>>
    /\ doctor_claim_counts = NoCounts
    /\ patient_claim_counts = NoCounts
    /\ recent_claims = <<>>
    /\ model_stats = [predictions_made |-> 0, fraud_detected |-> 0,
                      avg_processing_time |-> 0]
    /\ claim \in FingerprintClaims
    /\ last_outcome = ClassifierRaises
    /\ result = NoResult
    /\ inferences = 0
    /\ calls = 0
    /\ threads = [i \in 1..MaxThreads |-> IdleThread]
    /\ lock = 0

\* line 210: df = self._prepare_features(claim_data)
PrepareFeatures ==
    /\ result = NoResult
    /\ ~PrepareRaises(claim)
    /\ result' = _prepare_features(claim, now, doctor_claim_counts, hash_seed,
                                   feature_names)
    /\ UNCHANGED <<now, feature_names, risk_thresholds, hash_seed,
                   prediction_cache, doctor_claim_counts, patient_claim_counts,
                   recent_claims, model_stats, claim, last_outcome, inferences,
                   calls, threads, lock>>

NextFeatures == PrepareFeatures

SpecFeatures == InitFeatures /\ [][NextFeatures]_vars

(***************************************************************************)
(* predict_fraud_async: the caller awaits the pool's future and may be     *)
(* cancelled or time out while the worker runs the call                    *)
(***************************************************************************)
\* The awaiting task is cancelled.  Cancelling the future of a function
\* that a pool thread is already running has no effect on that thread: it
\* runs predict_fraud to its return and the result is dropped.
Cancel(i) ==
    /\ threads[i].pc \notin {"idle", "done", "snapshot", "snapshot_locked"}
    /\ ~threads[i].cancelled
    /\ threads' = [threads EXCEPT ![i].cancelled = TRUE]
    /\ UNCHANGED <<prediction_cache, doctor_claim_counts, patient_claim_counts,
                   recent_claims, model_stats, inferences, lock, claim,
                   last_outcome, result, calls>>
    /\ UNCHANGED Config

NextCancel ==
    \/ WarmUp
    \/ \E i \in Workers :
           (BeginWarm(i) \/ WorkerStep(i) \/ EvictStep(i) \/ Cancel(i))

SpecCancel == InitCache /\ [][NextCancel]_vars

(***************************************************************************)
(* Request intake: the event loop of the application runs one callback at  *)
(* a time; connections that arrive meanwhile wait to be accepted           *)
(***************************************************************************)
MaxLoopCalls == 3
MaxWaiting == 2

InitLoop ==
    /\ now = 0
    /\ feature_names \in FeatureNameLists
    /\ risk_thresholds = DefaultThresholds
    /\ hash_seed = 0
    /\ prediction_cache = <<>>
    /\ doctor_claim_counts = NoCounts
    /\ patient_claim_counts = NoCounts
    /\ recent_claims = <<>>
    /\ model_stats = [predictions_made |-> 0, fraud_detected |-> 0,
                      avg_processing_time |-> 0]
    /\ claim = BaseClaim
    /\ last_outcome = ClassifierRaises
    /\ result = [loop |-> "idle", waiting |-> 0, inference |-> "none",
                 response |-> NoResponse]
    /\ inferences = 0
    /\ calls = 0
    /\ threads = [i \in 1..MaxThreads |-> IdleThread]
    /\ lock = 0

\* a client sends a request
Arrive ==
    /\ result.waiting < MaxWaiting
    /\ result' = [result EXCEPT !.waiting = @ + 1]
    /\ UNCHANGED <<now, feature_names, risk_thresholds, hash_seed,
                   prediction_cache, doctor_claim_counts, patient_claim_counts,
                   recent_claims, model_stats, claim, last_outcome, inferences,
                   calls, threads, lock>>

\* The idle loop takes a waiting request and runs the coroutine detect_fraud
\* up to line 168, where it calls fraud_service.predict_fraud(claim.dict())
\* itself: the call is not handed to the thread pool (predict_fraud_async
\* has no caller) and the loop runs nothing else until it returns.
AcceptRequest ==
    /\ result.loop = "idle"
    /\ result.waiting > 0
    /\ calls < MaxLoopCalls
    /\ \E c \in Claims, outcome \in ClassifierOutcomes :
           /\ claim' = c
           /\ last_outcome' = outcome
    /\ result' = [result EXCEPT !.loop = "detect_fraud", !.waiting = @ - 1,
                                !.inference = "event_loop"]
    /\ UNCHANGED <<now, feature_names, risk_thresholds, hash_seed,
                   prediction_cache, doctor_claim_counts, patient_claim_counts,
                   recent_claims, model_stats, inferences, calls, threads, lock>>

\* lines 168-206: predict_fraud returns, the response is built and the loop
\* is free again
CompleteRequest ==
    LET r == predict_fraud(Engine, claim, now, last_outcome, 12, hash_seed,
                           feature_names, risk_thresholds)
    IN  /\ result.loop = "detect_fraud"
        /\ result' = [result EXCEPT
               !.loop = "idle", !.inference = "none",
               !.response =
                   IF "error" \in DOMAIN r.result
                   THEN [status |-> 500, detail |-> "Internal error"]
                   ELSE [status |-> 200, detail |-> r.result.risk_level]]
        /\ prediction_cache' = r.engine.prediction_cache
        /\ doctor_claim_counts' = r.engine.doctor_claim_counts
        /\ patient_claim_counts' = r.engine.patient_claim_counts
        /\ recent_claims' = r.engine.recent_claims
        /\ model_stats' = r.engine.model_stats
        /\ inferences' = inferences + r.inferred
        /\ calls' = calls + 1
        /\ UNCHANGED <<now, feature_names, risk_thresholds, hash_seed, claim,
                       last_outcome, threads, lock>>

NextLoop == Arrive \/ AcceptRequest \/ CompleteRequest

SpecLoop == InitLoop /\ [][NextLoop]_vars

(***************************************************************************)
(* Verdicts: claims scored at probabilities on and next to the decision    *)
(* boundary and the tier bounds, and submitted again within the window     *)
(***************************************************************************)
MaxVerdictCalls == 2

\* 0.2, 0.4, 0.5, 0.6 and 0.8, the values 0.00001 and 0.00004 below them,
\* and the ends of the unit interval
VerdictProbs ==
    {0, 19996, 19999, 20000, 39996, 39999, 40000, 49996, 49999, 50000,
     59996, 59999, 60000, 79996, 79999, 80000, ONE}

PredictVerdict ==
    /\ calls < MaxVerdictCalls
    /\ \E c \in Claims, outcome \in VerdictProbs, pt \in ProcTimes :
           Score(c, outcome, pt)

NextVerdict == PredictVerdict

SpecVerdict == InitPattern /\ [][NextVerdict]_vars

(***************************************************************************)
(* Properties                                                              *)
(***************************************************************************)
IsCall == calls' = calls + 1

Returned(r) == "from_cache" \in DOMAIN r

IsHit(r) == Returned(r) /\ r.from_cache

IsError(r) == Returned(r) /\ r.risk_level = "ERROR"

IsFresh(r) == Returned(r) /\ ~r.from_cache /\ r.risk_level # "ERROR"

CountOfFlag(flags, flag) == Cardinality({i \in DOMAIN flags : flags[i] = flag})

InUnit(x) == x >= 0 /\ x <= ONE

HasFlag(r, flag) == CountOfFlag(r.flags, flag) >= 1

(***************************************************************************)
(* The caller's hold on a result.  predict_fraud returns the dict object   *)
(* it has just stored as the cache entry's prediction (lines 251, 259,     *)
(* 612); on a hit it returns cached.prediction.copy(), a new dict whose    *)
(* "flags" is the stored list object (line 204).  The failure result is a  *)
(* dict built in the except branch and stored nowhere.                     *)
(***************************************************************************)
\* what the result r of the last call shares with the cache entry of its
\* claim: the whole dict, the flags list, or nothing
SharedWithCache(r) ==
    IF ~("from_cache" \in DOMAIN r) \/ r.risk_level = "ERROR" THEN "nothing"
    ELSE IF r.from_cache THEN "flags"
    ELSE "dict"

\* the changes a caller makes to the result it was handed
CallerEdits == {"append_flag", "set_risk_level"}

Edited(r, edit) ==
    IF edit = "append_flag"
    THEN [r EXCEPT !.flags = Append(@, "caller_note")]
    ELSE [r EXCEPT !.risk_level = "CALLER_EDIT"]

\* the cache after the caller has turned its result into r by the edit
CacheAfterEdit(cache, c, r, edit, shared) ==
    LET at == CacheIndex(cache, _hash_claim_features(c))
    IN  IF at = 0 THEN cache
        ELSE IF shared = "dict" THEN [cache EXCEPT ![at].prediction = r]
        ELSE IF shared = "flags" /\ edit = "append_flag"
        THEN [cache EXCEPT ![at].prediction.flags = r.flags]
        ELSE cache

\* the caller of the last call edits the result it holds, once per kind
CallerMutates ==
    /\ "from_cache" \in DOMAIN result
    /\ \E edit \in CallerEdits :
           /\ edit = "append_flag" => ~HasFlag(result, "caller_note")
           /\ edit = "set_risk_level"
                => result.risk_level \notin {"CALLER_EDIT", "ERROR"}
           /\ result' = Edited(result, edit)
           /\ prediction_cache' =
                  CacheAfterEdit(prediction_cache, claim, Edited(result, edit),
                                 edit, SharedWithCache(result))
    /\ UNCHANGED <<now, feature_names, risk_thresholds, hash_seed,
                   doctor_claim_counts, patient_claim_counts, recent_claims,
                   model_stats, claim, last_outcome, inferences, calls,
                   threads, lock>>

MaxCallerCalls == 2    \* scoring calls per behaviour of SpecCaller

PredictCaller ==
    /\ calls < MaxCallerCalls
    /\ \E c \in Claims, outcome \in ClassifierOutcomes, pt \in ProcTimes :
           Score(c, outcome, pt)

NextCaller == Tick \/ PredictCaller \/ CallerMutates

SpecCaller == Init /\ [][NextCaller]_vars

\* C1: every scored result, returned or stored, has fraud_probability,
\* base_probability and confidence_score between 0 and 1 and
\* pattern_adjustment between 0 and 0.40; the failure result has
\* probability and confidence 0.
C1_ScoresInRange ==
    /\ (IsFresh(result) \/ IsHit(result))
          => /\ InUnit(result.fraud_probability)
             /\ InUnit(result.base_probability)
             /\ InUnit(result.confidence_score)
             /\ result.pattern_adjustment >= 0
             /\ result.pattern_adjustment <= 40000
    /\ IsError(result)
          => (InUnit(result.fraud_probability) /\ InUnit(result.confidence_score))
    /\ \A i \in DOMAIN prediction_cache :
           LET stored == prediction_cache[i].prediction
           IN  /\ InUnit(stored.fraud_probability)
               /\ InUnit(stored.base_probability)
               /\ InUnit(stored.confidence_score)
               /\ stored.pattern_adjustment >= 0
               /\ stored.pattern_adjustment <= 40000

\* a result in which three rules fired (0.20 + 0.15 + 0.10) and the
\* classifier returned 1.0
C1_Witness ==
    /\ IsFresh(result)
    /\ HasFlag(result, "high_frequency_doctor")
    /\ HasFlag(result, "high_frequency_patient")
    /\ HasFlag(result, "identical_amounts_pattern")
    /\ result.pattern_adjustment = 40000
    /\ result.base_probability = ONE
    /\ result.fraud_probability = ONE

\* the cache holds a scored entry for claim c that was inserted less than
\* 300 seconds before the clock reading t
HasYoungEntry(cache, c, t) ==
    \E i \in DOMAIN cache :
        /\ cache[i].features_hash = _hash_claim_features(c)
        /\ cache[i].prediction.risk_level # "ERROR"
        /\ t - cache[i].timestamp >= 0
        /\ t - cache[i].timestamp < 300

\* C2: a claim whose fingerprint was scored less than 300 seconds ago and is
\* still in the cache is answered from the cache: from_cache is true, the
\* flag duplicate_claim_detected is present and the classifier is not run.
C2_DuplicateWithinWindow ==
    [][(IsCall /\ HasYoungEntry(prediction_cache, claim', now))
          => /\ IsHit(result')
             /\ CountOfFlag(result'.flags, "duplicate_claim_detected") >= 1
             /\ inferences' = inferences]_vars

C2_Witness ==
    /\ IsHit(result)
    /\ HasYoungEntry(prediction_cache, claim, now)
    /\ CountOfFlag(result.flags, "duplicate_claim_detected") >= 1

\* C3: a call is answered from the cache only if the entry for its
\* fingerprint was inserted less than 300 seconds earlier; at any age of 300
\* seconds or more, a day or more included, the claim is scored afresh.
C3_HitOnlyWithinWindow ==
    [][(IsCall /\ IsHit(result')) => HasYoungEntry(prediction_cache, claim', now)]_vars

\* C4: a cache hit leaves the stored result as it was inserted (from_cache
\* false, no duplicate flag added), and the result a hit returns carries
\* exactly one duplicate_claim_detected.
C4_StoredResultNeverMutated ==
    /\ \A i \in DOMAIN prediction_cache :
           /\ ~prediction_cache[i].prediction.from_cache
           /\ CountOfFlag(prediction_cache[i].prediction.flags,
                          "duplicate_claim_detected") = 0
    /\ IsHit(result) => CountOfFlag(result.flags, "duplicate_claim_detected") = 1

\* C5: a fresh call's pattern flags and adjustment are those of the counters
\* and the history as they stood before the call, and the call records the
\* claim after that: the claim is not counted against itself.
C5_AnalyzeBeforeRecord ==
    [][(IsCall /\ IsFresh(result'))
          => LET doctor_id == Get(claim'.doctor_id, "")
                 patient_id == Get(claim'.patient_id, "")
                 amount == IF claim'.amount_kind = Absent THEN 0
                           ELSE claim'.claim_amount
                 prior == _analyze_patterns(claim', doctor_claim_counts,
                              patient_claim_counts, recent_claims, now)
             IN  /\ HasFlag(result', "high_frequency_doctor")
                      <=> CountOf(doctor_claim_counts, doctor_id) > 10
                 /\ HasFlag(result', "high_frequency_patient")
                      <=> CountOf(patient_claim_counts, patient_id) > 5
                 /\ HasFlag(result', "identical_amounts_pattern")
                      <=> IdenticalAmountCount(recent_claims, amount) >= 3
                 /\ result'.pattern_adjustment = prior.adjustment
                 /\ recent_claims' = Append(recent_claims, claim')
                 /\ Truthy(claim'.doctor_id)
                      => CountOf(doctor_claim_counts', doctor_id)
                            = CountOf(doctor_claim_counts, doctor_id) + 1]_vars

\* the doctor's 11th fresh claim, analysed against a count of 10
C5_Witness ==
    /\ IsFresh(result)
    /\ CountOf(doctor_claim_counts, Get(claim.doctor_id, "")) = 11
    /\ ~HasFlag(result, "high_frequency_doctor")
    /\ HasFlag(result, "high_frequency_patient")

\* the fingerprints in the cache, in dict order
CacheKeys == [i \in DOMAIN prediction_cache |-> prediction_cache[i].features_hash]

\* C6: after n scoring calls with pairwise distinct fingerprints the cache
\* holds min(n, 1000) entries, those of the most recent calls, in the order
\* they were inserted.
C6_CacheBounded ==
    LET size == Min(calls, 1000)
    IN  /\ Len(prediction_cache) <= 1000
        /\ Len(prediction_cache) = size
        /\ CacheKeys = [i \in 1..size |->
                           _hash_claim_features(CacheClaim(calls - size + i))]

\* 1500 inserts made: 1000 entries left, the 500 oldest gone
C6_Witness ==
    /\ calls = 1500
    /\ Len(prediction_cache) = 1000
    /\ prediction_cache[1].features_hash = _hash_claim_features(CacheClaim(501))
    /\ prediction_cache[1].timestamp = prediction_cache[2].timestamp

Evaluated == "probability" \in DOMAIN result

\* C7: under the default table p >= 0.8 is CRITICAL, 0.6 <= p < 0.8 HIGH,
\* 0.4 <= p < 0.6 MEDIUM, 0.2 <= p < 0.4 LOW and p < 0.2 MINIMAL.
C7_DefaultTiers ==
    (Evaluated /\ risk_thresholds = DefaultThresholds)
        => result.risk_level =
              (IF result.probability >= 80000 THEN "CRITICAL"
               ELSE IF result.probability >= 60000 THEN "HIGH"
               ELSE IF result.probability >= 40000 THEN "MEDIUM"
               ELSE IF result.probability >= 20000 THEN "LOW"
               ELSE "MINIMAL")

\* a boundary value, in the higher tier, after a value just below it
C7_Witness ==
    /\ Evaluated
    /\ risk_thresholds = DefaultThresholds
    /\ result.probability = 60000
    /\ result.risk_level = "HIGH"
    /\ result.prev_probability = 59999
    /\ result.prev_level = "MEDIUM"

\* C8: for every threshold table, p1 <= p2 implies tier(p1) <= tier(p2) in
\* the order MINIMAL < LOW < MEDIUM < HIGH < CRITICAL.
C8_TierMonotone ==
    Evaluated
        => /\ result.prev_probability <= result.probability
                => TierRank(result.prev_level) <= TierRank(result.risk_level)
           /\ result.probability <= result.prev_probability
                => TierRank(result.risk_level) <= TierRank(result.prev_level)

\* a table against the convention, and two probabilities in different tiers
C8_Witness ==
    /\ Evaluated
    /\ risk_thresholds.LOW > risk_thresholds.CRITICAL
    /\ risk_thresholds.MEDIUM > risk_thresholds.HIGH
    /\ result.prev_probability < result.probability
    /\ TierRank(result.prev_level) < TierRank(result.risk_level)

\* the call being made is not answered from the cache
NotServedFromCache(c) ==
    LET i == CacheIndex(prediction_cache, _hash_claim_features(c))
    IN  i = 0 \/ ~CacheFresh(now, prediction_cache[i])

\* C9: a call in which feature preparation or the classifier fails returns
\* the typed failure result: is_fraud false, probability and confidence 0,
\* risk_level ERROR, flags exactly [processing_error], from_cache false.
C9_FailureIsTyped ==
    [][(/\ IsCall
        /\ NotServedFromCache(claim')
        /\ (PrepareRaises(claim') \/ last_outcome' = ClassifierRaises))
          => /\ Returned(result')
             /\ result'.is_fraud = FALSE
             /\ result'.fraud_probability = 0
             /\ result'.confidence_score = 0
             /\ result'.risk_level = "ERROR"
             /\ result'.flags = <<"processing_error">>
             /\ result'.from_cache = FALSE]_vars

C9_Witness ==
    /\ calls > 0
    /\ IsError(result)
    /\ result.flags = <<"processing_error">>
    /\ last_outcome = ClassifierRaises
    /\ ~PrepareRaises(claim)
    /\ inferences > 0

MissingIdentifier(c) == Absent \in {c.claim_id, c.patient_id, c.doctor_id}

\* C10 as stated: a claim that lacks its claim id, patient id or doctor id
\* gets the typed failure result.
C10_MissingIdFails ==
    [][(IsCall /\ NotServedFromCache(claim') /\ MissingIdentifier(claim'))
          => (IsError(result') /\ result'.flags = <<"processing_error">>)]_vars

\* C10 as amended: a claim that lacks its claim id, patient id or doctor id
\* is not rejected for that: the id takes its default and, when the
\* classifier answers, the call returns a scored verdict.
C10_MissingIdIsScored ==
    [][(/\ IsCall
        /\ NotServedFromCache(claim')
        /\ MissingIdentifier(claim')
        /\ claim'.ts_kind \notin {BadTimestamp, Null}
        /\ claim'.doctor_id # Null
        /\ last_outcome' # ClassifierRaises)
          => (IsFresh(result') /\ result'.flags # <<"processing_error">>)]_vars

C10_Witness ==
    /\ calls > 0
    /\ MissingIdentifier(claim)
    /\ last_outcome # ClassifierRaises
    /\ IsFresh(result)
    /\ result.risk_level \in {"MINIMAL", "LOW", "MEDIUM", "HIGH", "CRITICAL"}

AllDone == \A i \in Workers : threads[i].pc = "done"

\* the workers whose call returned a fresh verdict
FreshWorkers == {i \in Workers : IsFresh(threads[i].returned)}

\* C12: once the concurrent calls have completed, the doctor's and the
\* patient's counter have grown by one per fresh call that names them, and
\* recent_claims holds one entry per fresh call.
C12_TrackingNotLost ==
    AllDone
        => /\ CountOf(doctor_claim_counts, "D1")
                = Cardinality({i \in FreshWorkers : threads[i].claim.doctor_id = "D1"})
           /\ CountOf(patient_claim_counts, "P1")
                = Cardinality({i \in FreshWorkers : threads[i].claim.patient_id = "P1"})
           /\ Len(recent_claims) = Cardinality(FreshWorkers)

\* C13: no call in flight returns the failure result on account of another
\* call's insert or eviction, and once all calls have completed the cache
\* holds at most 1000 entries.
C13_CacheSafeUnderConcurrency ==
    /\ \A i \in Workers : ~IsError(threads[i].returned)
    /\ AllDone => Len(prediction_cache) <= CACHE_MAX

\* C14: once the concurrent calls have completed, predictions_made has grown
\* by the number of fresh calls and fraud_detected by the number of them
\* whose result has is_fraud true.
C14_StatisticsAtomic ==
    AllDone
        => /\ model_stats.predictions_made = Cardinality(FreshWorkers)
           /\ model_stats.fraud_detected
                = Cardinality({i \in FreshWorkers : threads[i].returned.is_fraud})

\* two fresh calls that overlapped (one doctor count was lost between
\* them), one of them a fraud verdict
C14_Witness ==
    /\ AllDone
    /\ Cardinality(FreshWorkers) >= 2
    /\ model_stats.predictions_made = Cardinality(FreshWorkers)
    /\ model_stats.fraud_detected = 1
    /\ CountOf(doctor_claim_counts, "D1") < model_stats.predictions_made

\* a result or stored prediction that shows an edit made by a caller
CallerMarked(r) == HasFlag(r, "caller_note") \/ r.risk_level = "CALLER_EDIT"

\* C15: what a caller does to a result it was handed (appending to its
\* flags, changing a field) reaches neither the entry stored in the cache
\* nor the result a later call returns.
C15_ResultIsACopy ==
    /\ [](\A i \in DOMAIN prediction_cache :
              ~CallerMarked(prediction_cache[i].prediction))
    /\ [][IsCall => ~CallerMarked(result')]_vars

Hashed == "other_hash" \in DOMAIN result

\* the two claims have the same patient, doctor, amount (as a number),
\* diagnosis code and facility
SameKeyFields(a, b) ==
    /\ a.patient_id = b.patient_id
    /\ a.doctor_id = b.doctor_id
    /\ a.claim_amount = b.claim_amount
    /\ a.diagnosis_code = b.diagnosis_code
    /\ a.facility_location = b.facility_location

\* C16: two claims have the same fingerprint exactly when they agree on
\* patient, doctor, amount, diagnosis code and facility, whatever their
\* other fields and whether the amount is written 100 or 100.0.
C16_FingerprintStable ==
    Hashed
        => (SameKeyFields(claim, result.other)
               <=> result.features_hash = result.other_hash)

\* C17: two calls with the same claim on the same engine state produce the
\* same feature vector and the same result.
C17_Deterministic ==
    Replayed
        => /\ result.first_features = result.second_features
           /\ result.first = result.second

\* a rule other than the doctor rule fires for claim c on the present stores
OtherRuleFires(c) ==
    PatternRules(c, NoCounts, patient_claim_counts, recent_claims, now).adjustment > 0

NearAmounts(history, from, amount) ==
    {i \in DOMAIN history :
        /\ i >= from
        /\ history[i].claim_amount - amount < 10
        /\ amount - history[i].claim_amount < 10}

\* the adjustment of the rules, other than the identical-amount rule, whose
\* flag r carries
OtherAdjustments(r) ==
    (IF HasFlag(r, "high_frequency_doctor") THEN 20000 ELSE 0)
      + (IF HasFlag(r, "high_frequency_patient") THEN 15000 ELSE 0)
      + (IF HasFlag(r, "rapid_fire_claims") THEN 25000 ELSE 0)

C20_AmountFlags ==
    IsFresh(result)
        => /\ HasFlag(result, "high_claim_amount") <=> claim.claim_amount > 10000000
           /\ HasFlag(result, "extremely_high_claim_amount")
                <=> claim.claim_amount > 50000000

\* the entries among the last 100 of history that carry a usable timestamp
\* (or none, which reads as the current time t) less than 300 s before t
StampedWithin300(history, t) ==
    {i \in DOMAIN history :
        /\ i > Len(history) - 100
        /\ history[i].ts_kind \in {Absent, "iso"}
        /\ LET stamp == IF history[i].ts_kind = Absent THEN t
                        ELSE history[i].ts_value
           IN  t - stamp < 300}

\* C21: the adjustment of a fresh call is min(0.40, 0.20 [doctor count > 10]
\* + 0.15 [patient count > 5] + 0.10 [identical amounts >= 3]
\* + 0.25 [burst count > 20]) on the stores as the call found them, and its
\* pattern flags are those of the rules whose condition holds.
C21_AdjustmentIsCappedSum ==
    [][(IsCall /\ IsFresh(result'))
          => LET c == claim'
                 doctorRule == CountOf(doctor_claim_counts, Get(c.doctor_id, "")) > 10
                 patientRule == CountOf(patient_claim_counts, Get(c.patient_id, "")) > 5
                 amountRule ==
                     Cardinality(NearAmounts(recent_claims, Len(recent_claims) - 49,
                                             c.claim_amount)) >= 3
                 burstRule == Cardinality(StampedWithin300(recent_claims, now)) > 20
                 sum == (IF doctorRule THEN 20000 ELSE 0)
                          + (IF patientRule THEN 15000 ELSE 0)
                          + (IF amountRule THEN 10000 ELSE 0)
                          + (IF burstRule THEN 25000 ELSE 0)
             IN  /\ result'.pattern_adjustment = Min(40000, sum)
                 /\ HasFlag(result', "high_frequency_doctor") <=> doctorRule
                 /\ HasFlag(result', "high_frequency_patient") <=> patientRule
                 /\ HasFlag(result', "identical_amounts_pattern") <=> amountRule
                 /\ HasFlag(result', "rapid_fire_claims") <=> burstRule]_vars

\* C22: startup fails fast: if the classifier artifact cannot be loaded,
\* lacks the probability operation or fails validation, the service never
\* reaches a state in which it serves requests.
C22_StartupFailsFast ==
    ("phase" \in DOMAIN result /\ LoadRaises(result.artifact, result.validation))
        => /\ result.phase # "serving"
           /\ result.response.status = 0

\* worker i returned a statistics snapshot
IsSnapshot(i) ==
    threads[i].pc = "done" /\ "predictions_made" \in DOMAIN threads[i].returned

C24_SnapshotCountsRecorded ==
    \A i \in Workers :
        IsSnapshot(i) =>
            /\ threads[i].returned.predictions_made <= Len(recent_claims)
            /\ threads[i].returned.predictions_made > 0
                   => Len(prediction_cache) > 0

\* the creation times of the cache entries, by fingerprint order
CreationTimes(cache) ==
    [i \in DOMAIN cache |-> <<cache[i].features_hash, cache[i].timestamp>>]

\* C25: a cache hit changes no tracking state (statistics, doctor and
\* patient counters, recent history) and does not refresh the entry's
\* creation time, so a fingerprint scored at t is answered from the cache
\* only until t + 300 s, however many hits occur in between.
C25_HitChangesNoTracking ==
    [][(IsCall /\ IsHit(result'))
          => /\ model_stats' = model_stats
             /\ doctor_claim_counts' = doctor_claim_counts
             /\ patient_claim_counts' = patient_claim_counts
             /\ recent_claims' = recent_claims
             /\ inferences' = inferences
             /\ CreationTimes(prediction_cache') = CreationTimes(prediction_cache)
             /\ \E i \in DOMAIN prediction_cache :
                    /\ prediction_cache[i].features_hash
                           = _hash_claim_features(claim')
                    /\ now < prediction_cache[i].timestamp + CACHE_TTL]_vars

\* the entries among the last 100 of history stamped less than 300 s before
\* or after t
StampedNear(history, t) ==
    {i \in DOMAIN history :
        /\ i > Len(history) - 100
        /\ history[i].ts_kind \in {Absent, "iso"}
        /\ LET stamp == IF history[i].ts_kind = Absent THEN t
                        ELSE history[i].ts_value
           IN  Abs(t - stamp) < 300}

\* the adjustment of the rules, other than the burst rule, whose flag r
\* carries
AdjustmentsButBurst(r) ==
    (IF HasFlag(r, "high_frequency_doctor") THEN 20000 ELSE 0)
      + (IF HasFlag(r, "high_frequency_patient") THEN 15000 ELSE 0)
      + (IF HasFlag(r, "identical_amounts_pattern") THEN 10000 ELSE 0)

\* C26: a fresh call carries rapid_fire_claims, and the burst rule adds
\* 0.25, exactly when more than 20 of the last 100 recorded claims are
\* stamped within 300 s of the current time, before or after it.
C26_BurstRule ==
    [][(IsCall /\ IsFresh(result'))
          => LET n == Cardinality(StampedNear(recent_claims, now))
                 rule == IF n > 20 THEN 25000 ELSE 0
             IN  /\ HasFlag(result', "rapid_fire_claims") <=> n > 20
                 /\ AdjustmentsButBurst(result') + rule <= ADJ_CAP
                      => result'.pattern_adjustment
                            = AdjustmentsButBurst(result') + rule]_vars

\* C27: the recent history is a bounded FIFO: it holds at most 1000
\* summaries, and they are the claims recorded last, in the order of their
\* recording (here the k-th call records the claim of amount k).
C27_RecentIsBoundedFifo ==
    /\ Len(recent_claims) = Min(calls, RECENT_MAX)
    /\ \A i \in DOMAIN recent_claims :
           recent_claims[i].claim_amount
               = 1000 * (calls - Len(recent_claims) + i)

\* the history has overflowed several times: its oldest entry is no longer
\* the first claim recorded
C27_Witness ==
    /\ calls > RECENT_MAX + 1
    /\ Len(recent_claims) = RECENT_MAX
    /\ recent_claims[1].claim_amount = 1000 * (calls - RECENT_MAX + 1)
    /\ recent_claims[RECENT_MAX] = claim

\* C28: of the concurrent calls that carry one fingerprint within the
\* freshness window at most one is scored fresh; the others are reported as
\* duplicates.
C28_OneFreshPerFingerprint ==
    \A i, j \in Workers :
        (/\ i # j
         /\ IsFresh(threads[i].returned)
         /\ Returned(threads[j].returned)
         /\ _hash_claim_features(threads[i].claim)
               = _hash_claim_features(threads[j].claim))
            => /\ IsHit(threads[j].returned)
               /\ model_stats.predictions_made <= 1

\* the frame of a prepared claim
Prepared == "columns" \in DOMAIN result

\* C29: with a configured feature list the frame has exactly the configured
\* names in the configured order; a derived name keeps its derived value, a
\* name that was not derived holds 0, and no other column is left.
C29_FrameMatchesFeatureNames ==
    (Prepared /\ feature_names # <<>>)
        => LET derived == Features(claim, now, doctor_claim_counts, hash_seed)
           IN  /\ result.columns = feature_names
               /\ DOMAIN result.row = Range(feature_names)
               /\ \A n \in Range(feature_names) :
                      result.row[n] = IF n \in DOMAIN derived THEN derived[n]
                                      ELSE 0

\* a frame under a list that names a feature the engine does not derive and
\* leaves out derived ones
C29_Witness ==
    /\ Prepared
    /\ feature_names = ModelFeatures
    /\ result.row["provider_risk_score"] = 0
    /\ result.row["hour"] = Hour(now)
    /\ "day_of_month" \notin DOMAIN result.row
    /\ Len(result.columns) < Len(DerivedColumns)

\* claim c carrying the engine's clock reading t as its timestamp
StampedNow(c, t) == [c EXCEPT !.ts_kind = "iso", !.ts_value = t]

\* a timestamp that is not there or that does not name an instant
NoUsableTimestamp(c) ==
    c.ts_kind \in {Absent, Null, EmptyTimestamp, BadTimestamp}

\* C30: a claim whose timestamp is absent or unparseable is scored as if it
\* carried the current time; on account of the timestamp alone the call does
\* not return the failure result.
C30_TimestampDefaultsToNow ==
    [][(/\ IsCall
        /\ NoUsableTimestamp(claim')
        /\ NotServedFromCache(claim')
        /\ NotServedFromCache(StampedNow(claim', now))
        /\ ~PrepareRaises(StampedNow(claim', now))
        /\ last_outcome' # ClassifierRaises)
          => /\ IsFresh(result')
             /\ \E pt \in ProcTimes :
                    result' = predict_fraud(Engine, StampedNow(claim', now), now,
                                  last_outcome', pt, hash_seed, feature_names,
                                  risk_thresholds).result]_vars

\* C31: an anomaly of the cache or of the pattern stores never fails a
\* scoring call: a call whose features can be prepared and whose classifier
\* answers returns a result that is not the failure result.
C31_StoreAnomalyNeverFails ==
    \A i \in Workers :
        (/\ threads[i].pc = "done"
         /\ ~IsSnapshot(i)
         /\ ~PrepareRaises(threads[i].claim)
         /\ threads[i].outcome # ClassifierRaises)
            => threads[i].returned.risk_level # "ERROR"

\* C32: the fallback code of a categorical value without an encoder is the
\* same in every process: an engine process started with any other hash
\* seed builds the same frame for the claim.
C32_FallbackCodeReproducible ==
    Prepared
        => \A seed \in HashSeeds :
               result = _prepare_features(claim, now, doctor_claim_counts,
                                          seed, feature_names)

\* the statistics after the complete updates of the calls of the workers in S
StatsOf(S) ==
    [predictions_made |-> Cardinality(S),
     fraud_detected |-> Cardinality({j \in S : threads[j].result.is_fraud}),
     avg_processing_time |-> IF S = {} THEN 0 ELSE 12]

\* the workers whose call has a verdict to count
Scored == {j \in Workers : "is_fraud" \in DOMAIN threads[j].result}

\* C33: a snapshot is the statistics as they stood between whole updates:
\* for every call it shows all of that call's update (count, fraud count and
\* average) or none of it; and what a caller does to a snapshot it was
\* handed does not reach the engine's statistics.
C33_SnapshotIsPointInTime ==
    /\ \A i \in Workers :
           (IsSnapshot(i) /\ threads[i].returned.avg_processing_time # -1)
               => \E S \in SUBSET Scored : threads[i].returned = StatsOf(S)
    /\ model_stats.avg_processing_time # -1

\* a snapshot that counts a fraud verdict whose call is still running, and
\* that its caller has since edited
C33_Witness ==
    \E i, j \in Workers :
        /\ IsSnapshot(i)
        /\ threads[i].returned.avg_processing_time = -1
        /\ threads[i].returned.predictions_made = 1
        /\ threads[i].returned.fraud_detected = 1
        /\ threads[j].pc \in {"cache_put", "cache_len", "track_doctor"}
        /\ model_stats = StatsOf({j})

\* the claim of worker i is in the recent history and its fingerprint in
\* the cache
Recorded(i) ==
    /\ \E k \in DOMAIN recent_claims : recent_claims[k] = threads[i].claim
    /\ CacheIndex(prediction_cache, _hash_claim_features(threads[i].claim)) # 0

\* C34: a call whose caller has given up after it started is not revoked:
\* once it has a verdict, and so goes on to update the statistics, it ends
\* with its statistics update, its cache insert and its pattern record all
\* made.
C34_CancelledCallCompletes ==
    \A i \in Workers :
        (/\ threads[i].cancelled
         /\ threads[i].pc = "done"
         /\ "is_fraud" \in DOMAIN threads[i].result)
            => /\ Recorded(i)
               /\ model_stats.predictions_made >= 1

\* C35: the inference of a request runs on a worker of the pool, at most 4
\* at once, and not on the thread that accepts requests: while an inference
\* is running the event loop is free to accept a request.
C35_InferenceOffTheLoop ==
    ("inference" \in DOMAIN result /\ result.inference # "none")
        => /\ result.inference = "pool"
           /\ result.loop = "idle"
           /\ Cardinality({i \in Workers : threads[i].pc \notin {"idle", "done"}}) <= 4

\* the workers whose call returned the failure result
FailedWorkers ==
    {i \in Workers : threads[i].pc = "done" /\ IsError(threads[i].returned)}

\* C36: a call that returns the failure result leaves no trace: the cache
\* does not hold a verdict it built, the statistics count only calls that
\* did not fail, and no cache entry is a failure result.
C36_FailureLeavesNoTrace ==
    /\ \A i \in FailedWorkers :
           ~\E k \in DOMAIN prediction_cache :
               /\ prediction_cache[k].features_hash
                      = _hash_claim_features(threads[i].claim)
               /\ prediction_cache[k].prediction = threads[i].result
    /\ model_stats.predictions_made - CACHE_MAX
           <= Cardinality({i \in Workers \ FailedWorkers :
                               threads[i].pc # "idle"})
    /\ \A k \in DOMAIN prediction_cache :
           prediction_cache[k].prediction.risk_level # "ERROR"

\* C37: in a result that is not the failure result, fresh or from the
\* cache, under the default thresholds: is_fraud implies MEDIUM, HIGH or
\* CRITICAL; HIGH or CRITICAL implies is_fraud; LOW or MINIMAL implies not
\* is_fraud.
C37_VerdictAgreesWithTier ==
    (Returned(result) /\ ~IsError(result) /\ risk_thresholds = DefaultThresholds)
        => /\ result.is_fraud => result.risk_level \in {"MEDIUM", "HIGH", "CRITICAL"}
           /\ result.risk_level \in {"HIGH", "CRITICAL"} => result.is_fraud
           /\ result.risk_level \in {"LOW", "MINIMAL"} => ~result.is_fraud

\* a cache hit that repeats a MEDIUM verdict scored just below the decision
\* boundary
C37_Witness ==
    /\ IsHit(result)
    /\ result.risk_level = "MEDIUM"
    /\ ~result.is_fraud
    /\ last_outcome = 49999
    /\ inferences = 1

\* C38: in a fresh result is_fraud and risk_level are what the 0.5 rule and
\* the threshold table give for the reported fraud_probability, the value
\* rounded to 4 decimals.
C38_VerdictFromReportedProbability ==
    IsFresh(result)
        => /\ result.is_fraud <=> result.fraud_probability >= FRAUD_CUTOFF
           /\ result.risk_level
                = _determine_risk_level(result.fraud_probability, risk_thresholds)


\* the request of this step found an unexpired prediction in Redis under
\* the key of its claim
RedisHit ==
    /\ "redis" \in DOMAIN result
    /\ calls' = calls + 1
    /\ result.fraud_service /\ result.redis_service /\ result.db_service
    /\ get_cached_prediction(result.redis, claim', now) # NoResult

\* C39: a detect-fraud request whose cache key has a prediction in Redis,
\* stored by an earlier successful request, is answered successfully with that
\* prediction marked from_cache = true, and the scoring engine is not invoked.
C39_RedisHitAnswered ==
    [][RedisHit
           => /\ result'.response.status = 200
              /\ "from_cache" \in DOMAIN result'.response
              /\ result'.response.from_cache
              /\ inferences' = inferences
              /\ Engine' = Engine]_vars

====
